---- MODULE Spec2Model ----
(***************************************************************************)
(* Model of webhook-manager: the tunnel registry and process-lifecycle     *)
(* manager (src/webhook_tunnel/manager.py) together with the part of the   *)
(* operating system it talks to: the process table, the loopback listeners *)
(* and the persisted registry file tunnels.json.                           *)
(*                                                                         *)
(* Python None is modelled as 0 for integers (pids, ports) and as "" for   *)
(* strings; both are falsy in the source's `if x:` / `if not x:` tests.    *)
(***************************************************************************)
EXTENDS Integers, FiniteSets, Sequences, TLC

VARIABLES tunnels, file, procs, foreign, last

\* the log files of one tunnel under LOG_DIR and the last answer of get_logs
VARIABLES log_file, lt_file, got

\* one proxy process: its listener, the connections it has accepted and
\* whether Server.wait_closed() of the interpreter that runs it waits for the
\* accepted connections to end (Python 3.12 and later) or returns at once
VARIABLES server, conns, drains

\* runner resolution: GlobalConfig.bundled_node of the manager, its copy in
\* config.json, the machine (system path, tools directory) and the last
\* ensure_npx call
VARIABLES config, config_file, sys, ran

\* one start_public_localtunnel call: the helper child and the scanning loop
VARIABLES helper, scan

\* the registry of a second manager instance
VARIABLES peer

\* one stop_tunnel or stop_public call, signal by signal
VARIABLES reap

\* one create_tunnel call, statement by statement
VARIABLES making

\* the manager, its registry file and the processes
managerVars == <<tunnels, file, procs, foreign, last>>
logVars == <<log_file, lt_file, got>>
proxyVars == <<server, conns, drains>>
runnerVars == <<config, config_file, sys, ran>>
launchVars == <<helper, scan>>
\* what only the studies of one call in detail touch
stepVars == <<making>>
detailVars == <<runnerVars, launchVars, peer, reap, stepVars>>
\* what the manager's lifecycle operations do not touch
others == <<logVars, proxyVars, detailVars>>

vars == <<managerVars, others>>

----------------------------------------------------------------------------
(* Bounds and program constants *)

None == 0
NoStr == ""

\* tunnel names the callers use
Names == {"api", "web"}
\* ports on which the user's own services may listen
LocalPorts == {3000}
\* find_available_port(start=8000, end=9000): the scan starts at 8000 ...
ScanStart == 8000
\* ... and is 1000 ports wide in the source; the model scans ScanLen ports
ScanLen == 2
ScanEnd == ScanStart + ScanLen
ScanRange == ScanStart .. (ScanEnd - 1)
\* size of the OS pid space
MaxPid == 2
\* longest log file, and the largest `lines` argument of get_logs
MaxLogLines == 3
MaxLinesArg == 4
\* the StreamReader limit (2 ** 16 bytes in asyncio), which is also the
\* size _pipe asks read() for (64 * 1024); counted in tokens in the model
Limit == 8

Ports == LocalPorts \cup ScanRange
\* public_port argument of create_tunnel: None or an explicit port
PublicPortArgs == {None} \cup ScanRange
\* subdomain argument of create_tunnel: callers leave it out (None) for
\* "api" and pass an explicit label for "web"
SubdomainArg(name) == IF name = "api" THEN NoStr ELSE "hook"
\* public_provider argument of create_tunnel: None or a provider name
ProviderArgs == {NoStr, "localtunnel"}
\* URL the exposure helper prints
HelperUrl == "https://x.loca.lt"
\* what can happen while start_public_localtunnel runs
ExposureOutcomes == {"ok", "norunner", "exited", "timeout"}
ExposureErrors == {"RunnerNotFound", "ExposureFailed", "ExternalUrlTimeout"}

----------------------------------------------------------------------------
(* Finite maps *)

EmptyMap == [x \in {} |-> None]
Remove(f, k) == [x \in (DOMAIN f) \ {k} |-> f[x]]
Put(f, k, v) == [x \in (DOMAIN f) \cup {k} |-> IF x = k THEN v ELSE f[x]]

----------------------------------------------------------------------------
(* Persistence: tunnels.json *)

\* A file is absent, holds a whole JSON document, or holds less than one
\* while a writer is between open(filepath, 'w') and the end of json.dump.

\* the file does not exist
NoFile == [exists |-> FALSE, members |-> {}, whole |-> TRUE]

\* open(filepath, 'w'): the file is there and empty
Truncated == [exists |-> TRUE, members |-> {}, whole |-> FALSE]

\* json.dump of the registry: an object, i.e. a set of key/value members
SaveJson(data) ==
    [exists |-> TRUE, members |-> {<<k, data[k]>> : k \in DOMAIN data},
     whole |-> TRUE]

\* json.load: the dict of the object's members; {} when the file is missing
\* or what it holds is not a JSON document (JSONDecodeError)
LoadJson(f) ==
    IF ~f.exists \/ ~f.whole THEN EmptyMap
    ELSE [k \in {m[1] : m \in f.members} |->
            (CHOOSE m \in f.members : m[1] = k)[2]]

LoadTunnels(f) == IF f.exists THEN LoadJson(f) ELSE EmptyMap

\* a variant that keeps the members on disk that the registry does not have
SaveTunnelsMerged(ts) ==
    LET disk == LoadJson(file)
    IN SaveJson([k \in DOMAIN disk \cup DOMAIN ts |->
                    IF k \in DOMAIN ts THEN ts[k] ELSE disk[k]])

SaveTunnels(ts) == SaveJson(ts)

----------------------------------------------------------------------------
(* Operating system: loopback listeners and the process table.             *)
(* procs maps the pid of every live process to what it is; a pid outside   *)
(* DOMAIN procs does not exist (psutil.NoSuchProcess).                     *)

Listening(ps) ==
    foreign \cup {ps[q].port : q \in {x \in DOMAIN ps : ps[x].kind = "proxy"}}

IsPortAvailable(ps, port) == port \notin Listening(ps)

\* get_process_info: psutil.Process(pid) finds the process.  psutil takes
\* pid None to mean the calling process, which is alive.
GetProcessInfo(ps, pid) == pid = None \/ pid \in DOMAIN ps

\* pids recorded in a registry
RecordedPids(ts) ==
    {ts[n].pid : n \in DOMAIN ts} \cup {ts[n].public_pid : n \in DOMAIN ts}

\* pids the OS may give to the next child: not running, and not one a
\* record still names
FreePids(ts, ps) == (1 .. MaxPid) \ (DOMAIN ps \cup RecordedPids(ts))

\* subprocess.Popen(...).pid: the pid the OS gives the next child
FreshPid(ts, ps) ==
    CHOOSE p \in FreePids(ts, ps) : \A q \in FreePids(ts, ps) : p <= q

\* psutil terminate / wait(3) / kill; NoSuchProcess is swallowed
Terminate(ps, pid) == IF pid \in DOMAIN ps THEN Remove(ps, pid) ELSE ps

----------------------------------------------------------------------------
(* Port allocation *)

ReservedPorts(ts) == {ts[n].public_port : n \in DOMAIN ts}

\* the body of the for loop of find_available_port, from `port` on
RECURSIVE ScanFrom(_, _, _)
ScanFrom(ts, ps, port) ==
    IF port >= ScanEnd THEN None
    ELSE IF IsPortAvailable(ps, port) /\ port \notin ReservedPorts(ts)
         THEN port
         ELSE ScanFrom(ts, ps, port + 1)

\* a variant that forgets the reservations of the registry
FindAvailablePortUnreserved(ts, ps) ==
    IF \E p \in ScanRange : IsPortAvailable(ps, p)
    THEN CHOOSE p \in ScanRange :
            /\ IsPortAvailable(ps, p)
            /\ \A q \in ScanRange : IsPortAvailable(ps, q) => p <= q
    ELSE None

\* find_available_port(): the port found, None when the scan is exhausted
FindAvailablePort(ts, ps) == ScanFrom(ts, ps, ScanStart)

----------------------------------------------------------------------------
(* Child processes *)

\* a running webhook_tunnel.proxy: it listens on its public port
ProxyProcess(public_port) == [kind |-> "proxy", port |-> public_port]

\* a running exposure helper
HelperProcess == [kind |-> "helper", port |-> None]

\* a process of some other program
OtherProcess == [kind |-> "other", port |-> None]

\* The process table once the proxy spawned as `pid` has tried to bind
\* public_port (asyncio.start_server): it keeps running only if the port was
\* free; otherwise main() returns 1 and the process is gone.
AfterBind(ps, pid, public_port) ==
    IF IsPortAvailable(ps, public_port)
    THEN Put(ps, pid, ProxyProcess(public_port))
    ELSE ps

\* a variant that trusts the spawn and never polls the child
StartProxyUnpolled(ts, ps, public_port, exits) ==
    LET pid == FreshPid(ts, ps)
    IN [procs |-> IF exits THEN ps ELSE AfterBind(ps, pid, public_port),
        pid |-> pid, err |-> NoStr]

\* start_proxy: spawn the proxy, sleep the grace period, poll it.
\* `exits` says whether the child has exited by the end of the grace period
\* (a crash at start-up, or a failed bind that came in time).  A child that
\* passes the poll and then fails its bind is gone by the time the caller
\* sees the pid.
StartProxy(ts, ps, public_port, exits) ==
    LET pid == FreshPid(ts, ps)
    IN IF exits
       THEN [procs |-> ps, pid |-> None, err |-> "ProxyStartFailed"]
       ELSE [procs |-> AfterBind(ps, pid, public_port),
             pid |-> pid, err |-> NoStr]

\* start_public_localtunnel: resolve the runner, spawn the helper, scan its
\* output for a URL.  `outcome` is what the environment does:
\*   norunner  ensure_npx raises before anything is spawned
\*   exited    the helper exits before printing a URL (poll() is not None)
\*   timeout   the window closes without a URL; the loop ends normally, so
\*             the except branch that terminates the child is not taken
\*   ok        a URL is read
StartPublicLocaltunnel(ts, ps, outcome) ==
    LET pid == FreshPid(ts, ps)
    IN CASE outcome = "norunner" ->
              [procs |-> ps, pid |-> None, url |-> NoStr,
               err |-> "RunnerNotFound"]
         [] outcome = "exited" ->
              [procs |-> ps, pid |-> None, url |-> NoStr,
               err |-> "ExposureFailed"]
         [] outcome = "timeout" ->
              [procs |-> Put(ps, pid, HelperProcess), pid |-> None,
               url |-> NoStr, err |-> "ExternalUrlTimeout"]
         [] OTHER ->
              [procs |-> Put(ps, pid, HelperProcess), pid |-> pid,
               url |-> HelperUrl, err |-> NoStr]

----------------------------------------------------------------------------
(* The manager's operations, as functions of the manager's registry, the   *)
(* persisted file and the process table.  Each yields the state it leaves  *)
(* and the error it raises (NoStr when it returns normally).               *)

World(ts, f, ps) == [tunnels |-> ts, file |-> f, procs |-> ps]

Result(ts, f, ps, e) == [tunnels |-> ts, file |-> f, procs |-> ps, err |-> e]

Raise(w, e) == Result(w.tunnels, w.file, w.procs, e)

\* a variant without the local-service probe
CreateCheckNoProbe(w, name, local_port) ==
    IF name \in DOMAIN w.tunnels THEN "DuplicateName" ELSE NoStr

\* a variant without the duplicate-name test
CreateCheckNoDuplicate(w, name, local_port) ==
    IF IsPortAvailable(w.procs, local_port) THEN "LocalServiceNotRunning"
    ELSE NoStr

\* create_tunnel, the two input checks: the error raised, NoStr when none
CreateCheck(w, name, local_port) ==
    IF name \in DOMAIN w.tunnels THEN "DuplicateName"
    ELSE IF IsPortAvailable(w.procs, local_port) THEN "LocalServiceNotRunning"
    ELSE NoStr

\* tunnel_info as create_tunnel builds it before any process is started.
\* process_info is the key list_tunnels adds: None while the key is absent,
\* otherwise the pid of the info dict (its usage figures are left out).
TunnelInfo(name, local_port, public_port, subdomain) ==
    [name |-> name, local_port |-> local_port, public_port |-> public_port,
     subdomain |-> subdomain, pid |-> None, status |-> "active",
     public_provider |-> NoStr, public_pid |-> None,
     public_url_external |-> NoStr, process_info |-> None]

\* create_tunnel.  env.exits and env.outcome are the environment's part in
\* start_proxy and start_public_localtunnel.
CreateTunnel(w, name, local_port, subdomain, public_port, provider, env) ==
    LET chk == CreateCheck(w, name, local_port)
        sub == IF subdomain = NoStr THEN name ELSE subdomain
        port == IF public_port = None
                THEN FindAvailablePort(w.tunnels, w.procs)
                ELSE public_port
        px == StartProxy(w.tunnels, w.procs, port, env.exits)
        info == [TunnelInfo(name, local_port, port, sub) EXCEPT !.pid = px.pid]
        pub == StartPublicLocaltunnel(w.tunnels, px.procs, env.outcome)
        exposed == [info EXCEPT !.public_provider = "localtunnel",
                                !.public_pid = pub.pid,
                                !.public_url_external = pub.url]
    IN  IF chk # NoStr THEN Raise(w, chk)
        ELSE IF port = None THEN Raise(w, "NoPortAvailable")
        ELSE IF px.err # NoStr
             THEN Result(w.tunnels, w.file, px.procs, px.err)
        ELSE IF provider = NoStr
             THEN LET ts == Put(w.tunnels, name, info)
                  IN Result(ts, SaveTunnels(ts), px.procs, NoStr)
        ELSE IF pub.err # NoStr
             THEN Result(w.tunnels, w.file, pub.procs, pub.err)
        ELSE LET ts == Put(w.tunnels, name, exposed)
             IN Result(ts, SaveTunnels(ts), pub.procs, NoStr)

\* a variant in which an already-dead child makes stop give up
StopTunnelLiveOnly(w, name) ==
    IF name \notin DOMAIN w.tunnels THEN Raise(w, "NotFound")
    ELSE LET t == w.tunnels[name]
         IN IF (t.public_pid # None /\ t.public_pid \notin DOMAIN w.procs)
               \/ (t.pid # None /\ t.pid \notin DOMAIN w.procs)
            THEN Raise(w, "NoSuchProcess")
            ELSE LET ps == Terminate(Terminate(w.procs, t.public_pid), t.pid)
                     ts == Remove(w.tunnels, name)
                 IN Result(ts, SaveTunnels(ts), ps, NoStr)

\* stop_tunnel
StopTunnel(w, name) ==
    IF name \notin DOMAIN w.tunnels THEN Raise(w, "NotFound")
    ELSE LET t == w.tunnels[name]
             ps1 == IF t.public_pid # None
                    THEN Terminate(w.procs, t.public_pid) ELSE w.procs
             ps2 == IF t.pid # None THEN Terminate(ps1, t.pid) ELSE ps1
             ts == Remove(w.tunnels, name)
         IN Result(ts, SaveTunnels(ts), ps2, NoStr)

\* a variant that lets create pick the public port afresh
RestartTunnelFreshPort(w, name, env) ==
    IF name \notin DOMAIN w.tunnels THEN Raise(w, "NotFound")
    ELSE LET tunnel == w.tunnels[name]
             stopped == StopTunnel(w, name)
         IN CreateTunnel(World(stopped.tunnels, stopped.file, stopped.procs),
                         name, tunnel.local_port, tunnel.subdomain, None,
                         tunnel.public_provider, env)

\* a variant that restarts the local tunnel only
RestartTunnelNoProvider(w, name, env) ==
    IF name \notin DOMAIN w.tunnels THEN Raise(w, "NotFound")
    ELSE LET tunnel == w.tunnels[name]
             stopped == StopTunnel(w, name)
         IN CreateTunnel(World(stopped.tunnels, stopped.file, stopped.procs),
                         name, tunnel.local_port, tunnel.subdomain,
                         tunnel.public_port, NoStr, env)

\* restart_tunnel
RestartTunnel(w, name, env) ==
    IF name \notin DOMAIN w.tunnels THEN Raise(w, "NotFound")
    ELSE LET tunnel == w.tunnels[name]
             local_port == tunnel.local_port
             subdomain == tunnel.subdomain
             public_port == tunnel.public_port
             public_provider == tunnel.public_provider
             stopped == StopTunnel(w, name)
         IN CreateTunnel(World(stopped.tunnels, stopped.file, stopped.procs),
                         name, local_port, subdomain, public_port,
                         public_provider, env)

\* a variant that refuses to start exposure twice
StartPublicOnce(w, name, env) ==
    IF name \notin DOMAIN w.tunnels THEN Raise(w, "NotFound")
    ELSE LET t == w.tunnels[name]
             pub == StartPublicLocaltunnel(w.tunnels, w.procs, env.outcome)
             ts == [w.tunnels EXCEPT ![name] =
                      [t EXCEPT !.public_provider = "localtunnel",
                                !.public_pid = pub.pid,
                                !.public_url_external = pub.url]]
         IN IF t.pid = None \/ ~GetProcessInfo(w.procs, t.pid)
            THEN Raise(w, "ProxyNotRunning")
            ELSE IF t.public_pid # None /\ GetProcessInfo(w.procs, t.public_pid)
            THEN Raise(w, "AlreadyExposed")
            ELSE IF pub.err # NoStr
            THEN Result(w.tunnels, w.file, pub.procs, pub.err)
            ELSE Result(ts, SaveTunnels(ts), pub.procs, NoStr)

\* a variant that looks at the exposure helper before it looks at the proxy
StartPublicHelperFirst(w, name, env) ==
    IF name \notin DOMAIN w.tunnels THEN Raise(w, "NotFound")
    ELSE LET t == w.tunnels[name]
             pub == StartPublicLocaltunnel(w.tunnels, w.procs, env.outcome)
             ts == [w.tunnels EXCEPT ![name] =
                      [t EXCEPT !.public_provider = "localtunnel",
                                !.public_pid = pub.pid,
                                !.public_url_external = pub.url]]
         IN IF t.public_pid # None /\ GetProcessInfo(w.procs, t.public_pid)
            THEN Result(w.tunnels, w.file, w.procs, NoStr)
            ELSE IF t.pid = None \/ ~GetProcessInfo(w.procs, t.pid)
            THEN Raise(w, "ProxyNotRunning")
            ELSE IF pub.err # NoStr
            THEN Result(w.tunnels, w.file, pub.procs, pub.err)
            ELSE Result(ts, SaveTunnels(ts), pub.procs, NoStr)

\* start_public
StartPublic(w, name, env) ==
    IF name \notin DOMAIN w.tunnels THEN Raise(w, "NotFound")
    ELSE LET t == w.tunnels[name]
             pub == StartPublicLocaltunnel(w.tunnels, w.procs, env.outcome)
             ts == [w.tunnels EXCEPT ![name] =
                      [t EXCEPT !.public_provider = "localtunnel",
                                !.public_pid = pub.pid,
                                !.public_url_external = pub.url]]
         IN IF t.pid = None \/ ~GetProcessInfo(w.procs, t.pid)
            THEN Raise(w, "ProxyNotRunning")
            ELSE IF t.public_pid # None /\ GetProcessInfo(w.procs, t.public_pid)
            THEN Result(w.tunnels, w.file, w.procs, NoStr)
            ELSE IF pub.err # NoStr
            THEN Result(w.tunnels, w.file, pub.procs, pub.err)
            ELSE Result(ts, SaveTunnels(ts), pub.procs, NoStr)

\* a variant that forgets to persist
StopPublicUnsaved(w, name) ==
    IF name \notin DOMAIN w.tunnels THEN Raise(w, "NotFound")
    ELSE LET t == w.tunnels[name]
             ts == [w.tunnels EXCEPT ![name] =
                      [t EXCEPT !.public_pid = None,
                                !.public_url_external = NoStr]]
         IN Result(ts, w.file, Terminate(w.procs, t.public_pid), NoStr)

\* a variant for which an unknown name is nothing to detach
StopPublicLenient(w, name) ==
    IF name \notin DOMAIN w.tunnels
    THEN Result(w.tunnels, SaveTunnels(w.tunnels), w.procs, NoStr)
    ELSE LET t == w.tunnels[name]
             ps == IF t.public_pid # None
                   THEN Terminate(w.procs, t.public_pid) ELSE w.procs
             ts == [w.tunnels EXCEPT ![name] =
                      [t EXCEPT !.public_pid = None,
                                !.public_url_external = NoStr]]
         IN Result(ts, SaveTunnels(ts), ps, NoStr)

\* a variant that takes the proxy down with the exposure helper
StopPublicStopsProxy(w, name) ==
    IF name \notin DOMAIN w.tunnels THEN Raise(w, "NotFound")
    ELSE LET t == w.tunnels[name]
             ps == Terminate(Terminate(w.procs, t.public_pid), t.pid)
             ts == [w.tunnels EXCEPT ![name] =
                      [t EXCEPT !.public_pid = None,
                                !.public_url_external = NoStr]]
         IN Result(ts, SaveTunnels(ts), ps, NoStr)

\* stop_public
StopPublic(w, name) ==
    IF name \notin DOMAIN w.tunnels THEN Raise(w, "NotFound")
    ELSE LET t == w.tunnels[name]
             ps == IF t.public_pid # None
                   THEN Terminate(w.procs, t.public_pid) ELSE w.procs
             ts == [w.tunnels EXCEPT ![name] =
                      [t EXCEPT !.public_pid = None,
                                !.public_url_external = NoStr]]
         IN Result(ts, SaveTunnels(ts), ps, NoStr)

\* a pid the record names no longer exists in the OS
HasDeadChild(ts, ps, name) ==
    /\ name \in DOMAIN ts
    /\ \/ ts[name].pid # None /\ ts[name].pid \notin DOMAIN ps
       \/ ts[name].public_pid # None /\ ts[name].public_pid \notin DOMAIN ps

\* cleanup_dead_tunnels: the names it removes
DeadTunnels(w) ==
    {name \in DOMAIN w.tunnels :
        /\ w.tunnels[name].pid # None
        /\ w.tunnels[name].pid \notin DOMAIN w.procs}

\* a variant that also drops the records whose exposure helper is gone
CleanupDeadTunnelsAnyChild(w) ==
    LET dead == {name \in DOMAIN w.tunnels :
                    HasDeadChild(w.tunnels, w.procs, name)}
        ts == [name \in (DOMAIN w.tunnels) \ dead |-> w.tunnels[name]]
    IN Result(ts, IF dead # {} THEN SaveTunnels(ts) ELSE w.file,
              w.procs, NoStr)

\* cleanup_dead_tunnels; it returns DeadTunnels(w)
CleanupDeadTunnels(w) ==
    LET dead == DeadTunnels(w)
        ts == [name \in (DOMAIN w.tunnels) \ dead |-> w.tunnels[name]]
    IN Result(ts, IF dead # {} THEN SaveTunnels(ts) ELSE w.file,
              w.procs, NoStr)

\* a variant that refreshes the live records only
ListTunnelsLiveOnly(w) ==
    LET refresh(t) ==
            IF t.pid # None /\ GetProcessInfo(w.procs, t.pid)
            THEN [t EXCEPT !.process_info = t.pid, !.status = "running"]
            ELSE t
    IN Result([name \in DOMAIN w.tunnels |-> refresh(w.tunnels[name])],
              w.file, w.procs, NoStr)

\* list_tunnels: every record with a pid is probed and marked; nothing is
\* saved
ListTunnels(w) ==
    LET refresh(t) ==
            IF t.pid # None
            THEN IF GetProcessInfo(w.procs, t.pid)
                 THEN [t EXCEPT !.process_info = t.pid, !.status = "running"]
                 ELSE [t EXCEPT !.status = "dead"]
            ELSE t
    IN Result([name \in DOMAIN w.tunnels |-> refresh(w.tunnels[name])],
              w.file, w.procs, NoStr)

Stats(total, active) ==
    [total_tunnels |-> total, active_tunnels |-> active,
     dead_tunnels |-> total - active]

\* a variant that counts the statuses the records carry
GetStatsCached(w) ==
    Stats(Cardinality(DOMAIN w.tunnels),
          Cardinality({name \in DOMAIN w.tunnels :
                          w.tunnels[name].status = "running"}))

\* get_stats: the counts it returns (the usage totals are left out)
GetStats(w) ==
    Stats(Cardinality(DOMAIN w.tunnels),
          Cardinality({name \in DOMAIN w.tunnels :
                          GetProcessInfo(w.procs, w.tunnels[name].pid)}))

----------------------------------------------------------------------------
(* Runner resolution (ensure_npx) and the portable Node.js installation.   *)
(* The manager's config holds the npx_path of bundled_node, NoStr while    *)
(* the key is absent; config.json holds what was last saved.               *)

\* the releases index.json may list first among the LTS entries
Versions == {"v20", "v22"}

\* where shutil.which finds npx, and where the portable installation of a
\* version has it
SystemNpx == "/usr/bin/npx"
BundledNpx(version) ==
    CASE version = "v20" -> "tools/node/v20/node-v20/bin/npx"
      [] version = "v22" -> "tools/node/v22/node-v22/bin/npx"
      [] OTHER -> NoStr

\* what a download of the archive can bring: the release or an altered copy
Archives == {"release", "tampered"}

\* _sha256 of an archive
Sha256(archive) ==
    CASE archive = "release" -> "5f3a"
      [] archive = "tampered" -> "c0de"
      [] OTHER -> NoStr

\* the digest SHASUMS256.txt lists for the archive's file name, NoStr when
\* it has no line for it
Manifests == {NoStr, Sha256("release")}

\* an extracted tree that has lost bin/npx
Hollow == "hollow"

\* the machine: whether npx is on the system path and, for the install
\* directory of each version, the archive file in it and the archive its
\* extracted tree came from (NoStr when the directory is absent, Hollow
\* when it is there without its npx)
NoHost ==
    [on_path |-> FALSE, archive |-> [v \in Versions |-> NoStr],
     tree |-> [v \in Versions |-> NoStr]]

\* Path(npx_path).exists()
Exists(h, path) ==
    \/ path = SystemNpx /\ h.on_path
    \/ \E v \in Versions :
          path = BundledNpx(v) /\ h.tree[v] \notin {NoStr, Hollow}

Machine(c, f, h) == [config |-> c, config_file |-> f, sys |-> h]

\* what the user may type at the prompt
AnswerWords == {"", "Y", "n", " Sim ", "k"}
MaxAnswers == 2
Answers == UNION {[1 .. n -> AnswerWords] : n \in 0 .. MaxAnswers}

\* input(...).strip().lower()
StripLower(ans) ==
    CASE ans = "Y" -> "y"
      [] ans = " Sim " -> "sim"
      [] OTHER -> ans

YesWords == {"y", "yes", "s", "sim"}
NoWords == {"n", "no", "nao", "não"}

\* the while loop of _prompt_yes_no on a terminal: the answer and the
\* number of times input() was called; input() raises EOFError when the
\* typed lines are used up
RECURSIVE Ask(_, _)
Ask(answers, default_yes) ==
    IF answers = <<>> THEN [ok |-> FALSE, asked |-> 1]
    ELSE LET ans == StripLower(Head(answers))
             again == Ask(Tail(answers), default_yes)
         IN IF ans = NoStr THEN [ok |-> default_yes, asked |-> 1]
            ELSE IF ans \in YesWords THEN [ok |-> TRUE, asked |-> 1]
            ELSE IF ans \in NoWords THEN [ok |-> FALSE, asked |-> 1]
            ELSE [ok |-> again.ok, asked |-> again.asked + 1]

\* _prompt_yes_no
PromptYesNo(tty, answers, default_yes) ==
    IF ~tty THEN [ok |-> FALSE, asked |-> 0]
    ELSE Ask(answers, default_yes)

\* a variant that unpacks the archive before it compares the digests
InstallUnverifiedFirst(w, env) ==
    LET version == env.version
        unpacked == [w.sys EXCEPT
                       !.archive[version] = env.archive,
                       !.tree[version] = IF w.sys.tree[version] # NoStr
                                         THEN w.sys.tree[version]
                                         ELSE env.archive]
    IN IF version = NoStr
       THEN [config |-> w.config, config_file |-> w.config_file,
             sys |-> w.sys, path |-> NoStr, err |-> "NoLtsRelease"]
       ELSE IF env.expected # NoStr /\ Sha256(env.archive) # env.expected
       THEN [config |-> w.config, config_file |-> w.config_file,
             sys |-> unpacked, path |-> NoStr, err |-> "ChecksumMismatch"]
       ELSE [config |-> BundledNpx(version),
             config_file |-> BundledNpx(version),
             sys |-> unpacked, path |-> BundledNpx(version), err |-> NoStr]

\* a variant that records the runner before it looks for the executable
InstallRecordsFirst(w, env) ==
    LET version == env.version
        downloaded == [w.sys EXCEPT !.archive[version] = env.archive]
        extracted == IF downloaded.tree[version] # NoStr THEN downloaded
                     ELSE [downloaded EXCEPT !.tree[version] = env.archive]
        npx_path == BundledNpx(version)
    IN IF version = NoStr
       THEN [config |-> w.config, config_file |-> w.config_file,
             sys |-> w.sys, path |-> NoStr, err |-> "NoLtsRelease"]
       ELSE IF env.expected # NoStr /\ Sha256(env.archive) # env.expected
       THEN [config |-> w.config, config_file |-> w.config_file,
             sys |-> downloaded, path |-> NoStr, err |-> "ChecksumMismatch"]
       ELSE IF ~Exists(extracted, npx_path)
       THEN [config |-> npx_path, config_file |-> npx_path,
             sys |-> extracted, path |-> NoStr, err |-> "NpxMissing"]
       ELSE [config |-> npx_path, config_file |-> npx_path,
             sys |-> extracted, path |-> npx_path, err |-> NoStr]

\* install_portable_node_lts on a supported platform.  env.version: the
\* first LTS entry of index.json, NoStr when it lists none; env.archive:
\* what the download brings; env.expected: the digest the manifest lists.
InstallPortableNodeLts(w, env) ==
    LET version == env.version
        downloaded == [w.sys EXCEPT !.archive[version] = env.archive]
        digest == Sha256(downloaded.archive[version])
        extracted == IF downloaded.tree[version] # NoStr THEN downloaded
                     ELSE [downloaded EXCEPT
                             !.tree[version] = downloaded.archive[version]]
        npx_path == BundledNpx(version)
    IN IF version = NoStr
       THEN [config |-> w.config, config_file |-> w.config_file,
             sys |-> w.sys, path |-> NoStr, err |-> "NoLtsRelease"]
       ELSE IF env.expected # NoStr /\ digest # env.expected
       THEN [config |-> w.config, config_file |-> w.config_file,
             sys |-> downloaded, path |-> NoStr, err |-> "ChecksumMismatch"]
       ELSE IF ~Exists(extracted, npx_path)
       THEN [config |-> w.config, config_file |-> w.config_file,
             sys |-> extracted, path |-> NoStr, err |-> "NpxMissing"]
       ELSE [config |-> npx_path, config_file |-> npx_path,
             sys |-> extracted, path |-> npx_path, err |-> NoStr]

\* what ensure_npx leaves and returns: the path, the error, how often it
\* called input(), whether it was given consent and whether it called
\* install_portable_node_lts
Resolved(w, path, err, asked, consent, provisioned) ==
    [config |-> w.config, config_file |-> w.config_file, sys |-> w.sys,
     path |-> path, err |-> err, asked |-> asked, consent |-> consent,
     provisioned |-> provisioned]

\* a variant that prefers the bundled runner to the one on the system path
EnsureNpxBundledFirst(w, interactive, env) ==
    LET ok == PromptYesNo(env.tty, env.answers, TRUE)
        npx == InstallPortableNodeLts(w, env)
    IN IF w.config # NoStr /\ Exists(w.sys, w.config)
       THEN Resolved(w, w.config, NoStr, 0, FALSE, FALSE)
       ELSE IF w.sys.on_path
       THEN Resolved(w, SystemNpx, NoStr, 0, FALSE, FALSE)
       ELSE IF ~interactive
       THEN Resolved(w, NoStr, "RunnerNotFound", 0, FALSE, FALSE)
       ELSE IF ~ok.ok
       THEN Resolved(w, NoStr, "RunnerNotFound", ok.asked, FALSE, FALSE)
       ELSE Resolved(npx, npx.path, npx.err, ok.asked, TRUE, TRUE)

\* ensure_npx.  env.tty: stdin is a terminal; env.answers: the lines typed.
EnsureNpx(w, interactive, env) ==
    LET ok == PromptYesNo(env.tty, env.answers, TRUE)
        npx == InstallPortableNodeLts(w, env)
    IN IF w.sys.on_path
       THEN Resolved(w, SystemNpx, NoStr, 0, FALSE, FALSE)
       ELSE IF w.config # NoStr /\ Exists(w.sys, w.config)
       THEN Resolved(w, w.config, NoStr, 0, FALSE, FALSE)
       ELSE IF ~interactive
       THEN Resolved(w, NoStr, "RunnerNotFound", 0, FALSE, FALSE)
       ELSE IF ~ok.ok
       THEN Resolved(w, NoStr, "RunnerNotFound", ok.asked, FALSE, FALSE)
       ELSE Resolved(npx, npx.path, npx.err, ok.asked, TRUE, TRUE)

\* the last ensure_npx call: its argument, what it returned or raised, how
\* often it prompted, and, when it provisioned, the version it installed
\* and the digest the manifest listed
NoRun ==
    [op |-> "none", interactive |-> FALSE, path |-> NoStr, err |-> NoStr,
     asked |-> 0, consent |-> FALSE, provisioned |-> FALSE,
     version |-> NoStr, expected |-> NoStr]

NoRunner ==
    /\ config = NoStr
    /\ config_file = NoStr
    /\ sys = NoHost
    /\ ran = NoRun

----------------------------------------------------------------------------
(* The scanning loop of start_public_localtunnel.  The helper's output is  *)
(* a sequence of lines and a line a sequence of words.                     *)

\* re.search(r"(https?://[^\s]+)", ...) on one word: the match, NoStr when
\* there is none.  The match starts where the scheme starts and runs to the
\* end of the word; it needs a character after the slashes.
UrlIn(word) ==
    CASE word = "https://x.loca.lt" -> "https://x.loca.lt"
      [] word = "url:http://y.lt," -> "http://y.lt,"
      [] OTHER -> NoStr

\* a variant that takes the last match of the line
UrlOfLastMatch(line) ==
    LET hits == {i \in 1 .. Len(line) : UrlIn(line[i]) # NoStr}
    IN IF hits = {} THEN NoStr
       ELSE UrlIn(line[CHOOSE i \in hits : \A j \in hits : j <= i])

\* url_re.search(line): group 1 of the leftmost match, NoStr for no match
UrlOf(line) ==
    LET hits == {i \in 1 .. Len(line) : UrlIn(line[i]) # NoStr}
    IN IF hits = {} THEN NoStr
       ELSE UrlIn(line[CHOOSE i \in hits : \A j \in hits : i <= j])

\* lines the helper may print: the announcement, a line with two URLs, a
\* line with look-alikes only, a blank line
HelperLines ==
    {<<"your", "url", "is:", "https://x.loca.lt">>,
     <<"see", "url:http://y.lt,", "or", "https://x.loca.lt">>,
     <<"warn", "ftp://z", "https://">>,
     <<>>}
\* longest output of a helper
MaxScript == 3
Scripts == UNION {[1 .. n -> HelperLines] : n \in 0 .. MaxScript}

\* the child: what it has still to print (script), what it has printed and
\* the parent has not read (pipe)
NoHelper == [pid |-> None, alive |-> FALSE, script |-> <<>>, pipe |-> <<>>]

\* the call: where it is (idle, poll: at the loop's test, read: in
\* readline, returned, failed), the lines readline has returned, whether
\* the except clause has sent terminate, and what it returned or raised
NoScan ==
    [pc |-> "idle", read |-> <<>>, terminated |-> FALSE,
     pid |-> None, url |-> NoStr, err |-> NoStr]

\* log.write(line) on the log opened for append
WriteLine(f, line) == [exists |-> TRUE, lines |-> Append(f.lines, line)]

\* the loop body once readline has returned `line`: when the line holds a
\* URL the loop breaks and the call returns the child's pid and the URL
Scanned(sc, child, line) ==
    IF UrlOf(line) # NoStr
    THEN [sc EXCEPT !.read = Append(sc.read, line), !.pc = "returned",
                    !.pid = child.pid, !.url = UrlOf(line)]
    ELSE [sc EXCEPT !.read = Append(sc.read, line), !.pc = "poll"]

NoLaunch ==
    /\ helper = NoHelper
    /\ scan = NoScan

----------------------------------------------------------------------------
(* Reaping: the terminate / wait / kill sequence of stop_tunnel and        *)
(* stop_public, call by call.  A child of the record is "none" (the pid    *)
(* field is empty), "running" or "gone".                                   *)

Children == {"helper", "proxy"}

\* where the call goes once it is through with child `cur`: stop_tunnel
\* deals with public_pid first and pid second, stop_public with public_pid
\* alone; then the record is updated and saved
Following(op, cur) ==
    IF op = "stop" /\ cur = "helper"
    THEN [cur |-> "proxy", pc |-> "find"]
    ELSE [cur |-> cur, pc |-> "save"]

\* a variant that kills whether or not the wait has timed out
WaitedThenKill(alive) == "kill"

\* p.wait(timeout=3) ends: TimeoutExpired, which leads to p.kill(), when
\* the child is still alive; otherwise the child is done with
Waited(alive) == IF alive THEN "kill" ELSE "next"

\* the call (op), the child it is dealing with (cur) and where (pc: find,
\* term, wait, kill, save, done); the state of the children; the methods
\* called on each; whether its wait timed out; whether it exited while the
\* call was waiting for it
NoReap ==
    [op |-> "none", pc |-> "idle", cur |-> "helper",
     kids |-> [c \in Children |-> "none"],
     calls |-> [c \in Children |-> <<>>],
     timedout |-> [c \in Children |-> FALSE],
     inwait |-> [c \in Children |-> FALSE]]

\* the call moves on to pc `to`; "next" stands for what follows the child
Proceed(r, to) ==
    IF to = "next"
    THEN [r EXCEPT !.cur = Following(r.op, r.cur).cur,
                   !.pc = Following(r.op, r.cur).pc]
    ELSE [r EXCEPT !.pc = to]


----------------------------------------------------------------------------
(* Log files.  A log file is absent or holds a sequence of lines; the i-th *)
(* line a process wrote is <<source, i>>.                                   *)

NoLogFile == [exists |-> FALSE, lines |-> <<>>]

\* open(path, 'a').write(line)
AppendLine(f, source) ==
    [exists |-> TRUE, lines |-> Append(f.lines, <<source, Len(f.lines) + 1>>)]

\* the label get_logs puts before the helper's lines
PublicLabel == <<"--- [public: localtunnel] ---", 0>>

\* all_lines[-lines:] for lines >= 0: Python reads -0 as 0, the start of
\* the list
LastLines(all_lines, lines) ==
    IF lines = 0 THEN all_lines
    ELSE SubSeq(all_lines,
                IF Len(all_lines) > lines THEN Len(all_lines) - lines + 1
                ELSE 1,
                Len(all_lines))

\* get_logs(name, lines): the lines of the string it returns.  The files are
\* readable, so the except branch is not taken.
GetLogs(log, lt, lines) ==
    IF ~log.exists THEN <<>>
    ELSE LastLines(log.lines, lines)
            \o (IF lt.exists
                THEN <<PublicLabel>> \o LastLines(lt.lines, lines)
                ELSE <<>>)

NoAnswer == [called |-> FALSE, lines |-> 0, out |-> <<>>]

NoLogs ==
    /\ log_file = NoLogFile
    /\ lt_file = NoLogFile
    /\ got = NoAnswer

----------------------------------------------------------------------------
(* The forwarding proxy (src/webhook_tunnel/proxy.py).  A byte stream is a *)
(* sequence of tokens, each standing for the bytes it spells; the streams  *)
(* of the model put one token per word of a line.                          *)

SP == " "
CRLF == "\r\n"

HTTP_METHODS == {"GET", "POST", "PUT", "PATCH", "DELETE", "HEAD", "OPTIONS"}

\* str.upper() of a word
Upper(word) ==
    CASE word = "get" -> "GET"
      [] word = "post" -> "POST"
      [] OTHER -> word

\* proto.startswith("HTTP/")
StartsWithHttp(word) == word \in {"HTTP/1.1", "HTTP/1.0"}

\* ln.lower().startswith("host:")
IsHostLine(word) == word \in {"Host: x", "host: x"}

\* ln.split(":", 1)[1].strip()
HostValue(word) == IF IsHostLine(word) THEN "x" ELSE NoStr

\* find(b"\r\n\r\n"): the index of the first token of the first blank-line
\* terminator, 0 when there is none
FindTerminator(buf) ==
    LET found == {i \in 1 .. (Len(buf) - 1) :
                     buf[i] = CRLF /\ buf[i + 1] = CRLF}
    IN IF found = {} THEN 0
       ELSE CHOOSE i \in found : \A j \in found : i <= j

\* str.split(sep)
RECURSIVE Split(_, _)
Split(text, sep) ==
    IF \A i \in 1 .. Len(text) : text[i] # sep THEN <<text>>
    ELSE LET i == CHOOSE k \in 1 .. Len(text) :
                     /\ text[k] = sep
                     /\ \A j \in 1 .. (k - 1) : text[j] # sep
         IN <<SubSeq(text, 1, i - 1)>>
                \o Split(SubSeq(text, i + 1, Len(text)), sep)

\* the text of a piece that split() returned
Word(piece) == IF Len(piece) = 1 THEN piece[1] ELSE NoStr

NoRequest == [ok |-> FALSE, method |-> NoStr, path |-> NoStr, host |-> NoStr]

\* a variant that takes any first word for a method
TryParseAnyMethod(head) ==
    LET header_end == FindTerminator(head)
        lines == Split(SubSeq(head, 1, header_end - 1), CRLF)
        parts == Split(lines[1], SP)
    IN IF header_end = 0 \/ Len(parts) < 3 THEN NoRequest
       ELSE IF ~StartsWithHttp(Word(parts[3])) THEN NoRequest
       ELSE [ok |-> TRUE, method |-> Upper(Word(parts[1])),
             path |-> Word(parts[2]), host |-> NoStr]

\* _try_parse_http_request
TryParseHttpRequest(head) ==
    LET header_end == FindTerminator(head)
        header_text == SubSeq(head, 1, header_end - 1)
        lines == Split(header_text, CRLF)
        parts == Split(lines[1], SP)
        method == Upper(Word(parts[1]))
        path == Word(parts[2])
        proto == Word(parts[3])
        hosts == {i \in 2 .. Len(lines) : IsHostLine(Word(lines[i]))}
        host == IF hosts = {} THEN NoStr
                ELSE HostValue(Word(lines[CHOOSE i \in hosts :
                                            \A j \in hosts : i <= j]))
    IN IF header_end = 0 THEN NoRequest
       ELSE IF Len(parts) < 3 THEN NoRequest
       ELSE IF method \notin HTTP_METHODS THEN NoRequest
       ELSE IF ~StartsWithHttp(proto) THEN NoRequest
       ELSE [ok |-> TRUE, method |-> method, path |-> path, host |-> host]

\* a variant that forgets the bytes an early end-of-stream had brought
ReadUntilDropsPartial(buf, eof) ==
    LET isep == FindTerminator(buf)
    IN IF isep # 0 /\ isep - 1 <= Limit
       THEN [kind |-> "match", chunk |-> SubSeq(buf, 1, isep + 1),
             rest |-> SubSeq(buf, isep + 2, Len(buf))]
       ELSE IF isep # 0 \/ (Len(buf) >= 2 /\ Len(buf) - 1 > Limit)
       THEN [kind |-> "overrun", chunk |-> <<>>, rest |-> buf]
       ELSE IF eof
       THEN [kind |-> "incomplete", chunk |-> <<>>, rest |-> <<>>]
       ELSE [kind |-> "wait", chunk |-> <<>>, rest |-> buf]

\* client_reader.readuntil(b"\r\n\r\n") on a reader that holds buf and has
\* (eof) or has not seen the end of the stream, together with the except
\* clauses of handle_client: how the wait ends, the bytes handed to the
\* handler as `initial` and the bytes left in the reader.
\*   match       the block up to and including the terminator
\*   overrun     LimitOverrunError; the data stays in the reader
\*   incomplete  IncompleteReadError; e.partial is all the reader held
\*   wait        readuntil waits for more data
ReadUntil(buf, eof) ==
    LET isep == FindTerminator(buf)
    IN IF isep # 0 /\ isep - 1 <= Limit
       THEN [kind |-> "match", chunk |-> SubSeq(buf, 1, isep + 1),
             rest |-> SubSeq(buf, isep + 2, Len(buf))]
       ELSE IF isep # 0 \/ (Len(buf) >= 2 /\ Len(buf) - 1 > Limit)
       THEN [kind |-> "overrun", chunk |-> <<>>, rest |-> buf]
       ELSE IF eof
       THEN [kind |-> "incomplete", chunk |-> buf, rest |-> <<>>]
       ELSE [kind |-> "wait", chunk |-> <<>>, rest |-> buf]

\* reader.read(64 * 1024): the bytes returned and the bytes left
ReadChunk(buf) ==
    LET n == IF Len(buf) < Limit THEN Len(buf) ELSE Limit
    IN [data |-> SubSeq(buf, 1, n), rest |-> SubSeq(buf, n + 1, Len(buf))]

\* the peers the model lets connect
ConnIds == {"c1", "c2"}

\* what clients send.  Request lines with a known, a lower-case and an
\* unknown method, with and without an HTTP version, cut short after the
\* path; then an optional Host header, the blank line or not, a body or not.
ReqMethods == {"GET", "get", "BREW"}
ReqProtos == {"HTTP/1.1", "ICY"}
RequestLines ==
    {<<m, SP, "/hook", SP, v>> : m \in ReqMethods, v \in ReqProtos}
        \cup {<<"GET", SP, "/hook">>}
Heads ==
    {rl \o <<CRLF>> \o h : rl \in RequestLines,
                           h \in {<<>>, <<"Host: x", CRLF>>}}
\* a stream without terminator that overruns the reader's limit
LongStream == [i \in 1 .. (Limit + 2) |-> "bin"]
Streams ==
    {h \o t \o b : h \in Heads, t \in {<<>>, <<CRLF>>},
                   b \in {<<>>, <<"body">>}}
        \cup {<<>>, <<"bin">>, LongStream}
\* what the target answers
Reply == <<"200", "ok">>

\* a connection slot: the client's side (out: bytes it has still to send,
\* sent: bytes it has sent, ceof: it has shut down its sending side), the
\* handler (phase, initial, how the peek ended, connect attempts, the two
\* _pipe tasks t1 client->target and t2 target->client, the log lines for
\* this peer), the two readers (cbuf, ubuf), the two writers (cclosed,
\* uclosed) and the target's side (reply, tsent, ueof, tgot: the bytes it
\* has received; cgot: the bytes the client has received).
FreeConn ==
    [phase |-> "free", out |-> <<>>, sent |-> <<>>, ceof |-> FALSE,
     cbuf |-> <<>>, initial |-> <<>>, peek |-> "none", attempts |-> 0,
     tgot |-> <<>>, reply |-> <<>>, tsent |-> <<>>, ueof |-> FALSE,
     ubuf |-> <<>>, cgot |-> <<>>, t1 |-> "none", t2 |-> "none",
     cclosed |-> FALSE, uclosed |-> FALSE, log |-> <<>>]

NoConns ==
    /\ server = "ready"
    /\ conns = [c \in ConnIds |-> FreeConn]
    /\ drains = FALSE

----------------------------------------------------------------------------
(* The state machine: one manager instance at a time, its callers and the  *)
(* environment.  `last` records the call that has just returned: the       *)
(* operation, the name and local port it was given, whether it ran         *)
(* find_available_port (auto), whether a stop found a recorded child       *)
(* already gone, the environment's choices, the error it raised, the names *)
(* cleanup_dead_tunnels returned and the counts get_stats returned;        *)
(* environment steps reset it.                                             *)

NoEnv == [exits |-> FALSE, outcome |-> "ok"]

NoCall ==
    [op |-> "none", name |-> NoStr, local_port |-> None, auto |-> FALSE,
     gone |-> FALSE, env |-> NoEnv, err |-> NoStr,
     removed |-> {}, stats |-> Stats(0, 0)]

Here == World(tunnels, file, procs)

Call(op, name) == [NoCall EXCEPT !.op = op, !.name = name]

\* the manager's state and the OS state become those of result r
Becomes(r) ==
    /\ tunnels' = r.tunnels
    /\ file' = r.file
    /\ procs' = r.procs

\* the OS can still give out k pids
CanSpawn(k) == Cardinality(FreePids(tunnels, procs)) >= k

\* create_tunnel with these arguments gets as far as start_proxy
ReachesProxy(w, name, local_port, public_port) ==
    /\ CreateCheck(w, name, local_port) = NoStr
    /\ public_port = None => FindAvailablePort(w.tunnels, w.procs) # None

\* the recorded exposure helper of `name` passes the liveness probe
ExposureAlive(ts, ps, name) ==
    /\ name \in DOMAIN ts
    /\ ts[name].public_pid # None
    /\ GetProcessInfo(ps, ts[name].public_pid)

\* start_public(name) gets as far as start_public_localtunnel
ReachesLauncher(w, name) ==
    /\ name \in DOMAIN w.tunnels
    /\ w.tunnels[name].pid # None
    /\ GetProcessInfo(w.procs, w.tunnels[name].pid)
    /\ ~ExposureAlive(w.tunnels, w.procs, name)

\* The arguments and the environment's choices are enumerated only where
\* the call consults them: public_port once the input checks have passed,
\* `exits` when a proxy is spawned, the provider once the proxy has passed
\* its poll, `outcome` when exposure is tried.
PortChoices(checked) == IF checked THEN PublicPortArgs ELSE {None}
ExitChoices(spawns) == IF spawns THEN BOOLEAN ELSE {FALSE}
ProviderChoices(polled) == IF polled THEN ProviderArgs ELSE {NoStr}
OutcomeChoices(exposes) == IF exposes THEN ExposureOutcomes ELSE {"ok"}

\* a proxy child that runs but has not reached asyncio.start_server yet
StartingProcess(public_port) == [kind |-> "starting", port |-> public_port]

\* no create_tunnel call is being followed.  `before` is what tunnels.json
\* held when the call opened it for writing.
NoMaking == [pc |-> "idle", name |-> NoStr, local_port |-> None,
             port |-> None, pid |-> None, err |-> NoStr, before |-> NoFile]

\* nothing is under study in detail
NoDetail ==
    /\ NoRunner
    /\ NoLaunch
    /\ peer = EmptyMap
    /\ reap = NoReap
    /\ making = NoMaking

Init ==
    /\ tunnels = EmptyMap
    /\ file = NoFile
    /\ procs = EmptyMap
    /\ foreign = {}
    /\ last = NoCall
    /\ NoLogs
    /\ NoConns
    /\ NoDetail

Create ==
    \E name \in Names, local_port \in LocalPorts :
    \E public_port \in PortChoices(CreateCheck(Here, name, local_port)
                                      = NoStr) :
    \E exits \in ExitChoices(ReachesProxy(Here, name, local_port,
                                          public_port)) :
    \E provider \in ProviderChoices(/\ ReachesProxy(Here, name, local_port,
                                                    public_port)
                                     /\ ~exits) :
    \E outcome \in OutcomeChoices(provider # NoStr) :
        /\ CanSpawn(IF provider = NoStr THEN 1 ELSE 2)
        /\ LET env == [exits |-> exits, outcome |-> outcome]
               r == CreateTunnel(Here, name, local_port, SubdomainArg(name),
                                 public_port, provider, env)
           IN /\ Becomes(r)
              /\ last' = [Call("create", name) EXCEPT
                            !.local_port = local_port,
                            !.auto = (public_port = None /\
                                      CreateCheck(Here, name, local_port)
                                          = NoStr),
                            !.env = env, !.err = r.err]
        /\ UNCHANGED <<foreign, others>>

Stop ==
    \E name \in Names :
        /\ LET r == StopTunnel(Here, name)
           IN /\ Becomes(r)
              /\ last' = [Call("stop", name) EXCEPT
                            !.gone = HasDeadChild(tunnels, procs, name),
                            !.err = r.err]
        /\ UNCHANGED <<foreign, others>>

Restart ==
    \E name \in Names :
    \E exits \in ExitChoices(/\ name \in DOMAIN tunnels
                             /\ ~IsPortAvailable(StopTunnel(Here, name).procs,
                                                 tunnels[name].local_port)) :
    \E outcome \in OutcomeChoices(/\ name \in DOMAIN tunnels
                                   /\ ~IsPortAvailable(
                                          StopTunnel(Here, name).procs,
                                          tunnels[name].local_port)
                                   /\ ~exits
                                   /\ tunnels[name].public_provider # NoStr) :
        /\ name \in DOMAIN tunnels =>
              Cardinality(FreePids(Remove(tunnels, name),
                                   StopTunnel(Here, name).procs))
                >= (IF tunnels[name].public_provider = NoStr THEN 1 ELSE 2)
        /\ LET env == [exits |-> exits, outcome |-> outcome]
               r == RestartTunnel(Here, name, env)
           IN /\ Becomes(r)
              /\ last' = [Call("restart", name) EXCEPT
                            !.env = env, !.err = r.err]
        /\ UNCHANGED <<foreign, others>>

StartPublicOnly ==
    \E name \in Names :
    \E outcome \in OutcomeChoices(ReachesLauncher(Here, name)) :
        /\ ReachesLauncher(Here, name) => CanSpawn(1)
        /\ LET env == [exits |-> FALSE, outcome |-> outcome]
               r == StartPublic(Here, name, env)
           IN /\ Becomes(r)
              /\ last' = [Call("start_public", name) EXCEPT
                            !.env = env, !.err = r.err]
        /\ UNCHANGED <<foreign, others>>

StopPublicOnly ==
    \E name \in Names :
        /\ LET r == StopPublic(Here, name)
           IN /\ Becomes(r)
              /\ last' = [Call("stop_public", name) EXCEPT !.err = r.err]
        /\ UNCHANGED <<foreign, others>>

CleanupDead ==
    /\ LET r == CleanupDeadTunnels(Here)
       IN /\ Becomes(r)
          /\ last' = [Call("cleanup", NoStr) EXCEPT
                        !.removed = DeadTunnels(Here), !.err = r.err]
    /\ UNCHANGED <<foreign, others>>

List ==
    /\ LET r == ListTunnels(Here)
       IN /\ Becomes(r)
          /\ last' = [Call("list", NoStr) EXCEPT !.err = r.err]
    /\ UNCHANGED <<foreign, others>>

GetStatistics ==
    /\ last' = [Call("stats", NoStr) EXCEPT !.stats = GetStats(Here)]
    /\ UNCHANGED <<tunnels, file, procs, foreign, others>>

\* TunnelManager(): a new instance loads the registry from the file
NewManager ==
    /\ tunnels' = LoadTunnels(file)
    /\ last' = NoCall
    /\ UNCHANGED <<file, procs, foreign, others>>

\* a child process exits on its own
ProcessDies ==
    \E pid \in DOMAIN procs :
        /\ procs' = Remove(procs, pid)
        /\ last' = NoCall
        /\ UNCHANGED <<tunnels, file, foreign, others>>

\* some other program starts listening on a loopback port: the user's
\* service on a local port, or one competitor for the public ports
ForeignBind ==
    \E port \in Ports :
        /\ IsPortAvailable(procs, port)
        /\ port \in ScanRange => foreign \cap ScanRange = {}
        /\ foreign' = foreign \cup {port}
        /\ last' = NoCall
        /\ UNCHANGED <<tunnels, file, procs, others>>

\* some other program stops listening
ForeignClose ==
    \E port \in foreign :
        /\ foreign' = foreign \ {port}
        /\ last' = NoCall
        /\ UNCHANGED <<tunnels, file, procs, others>>

Next ==
    \/ Create
    \/ Stop
    \/ Restart
    \/ StartPublicOnly
    \/ StopPublicOnly
    \/ CleanupDead
    \/ NewManager
    \/ ProcessDies
    \/ ForeignBind
    \/ ForeignClose

Spec == Init /\ [][Next]_vars

\* list_tunnels and get_stats write nothing but the status and process_info
\* of the records, which no operation of the manager reads.  They are
\* studied together with the lifecycle they observe: the user's services
\* are up, tunnels are created, exposed, stopped and cleaned up, processes
\* exit.  After a list the registry in memory differs from the file until
\* an operation saves it.
ListInit ==
    /\ tunnels = EmptyMap
    /\ file = NoFile
    /\ procs = EmptyMap
    /\ foreign = LocalPorts
    /\ last = NoCall
    /\ NoLogs
    /\ NoConns
    /\ NoDetail

ListNext ==
    \/ Create
    \/ StartPublicOnly
    \/ Stop
    \/ CleanupDead
    \/ List
    \/ GetStatistics
    \/ NewManager
    \/ ProcessDies

ListSpec == ListInit /\ [][ListNext]_vars

\* get_logs reads two files that the proxy and the exposure helper append
\* to; it reads neither the registry nor the process table.
LogsInit ==
    /\ tunnels = EmptyMap
    /\ file = NoFile
    /\ procs = EmptyMap
    /\ foreign = {}
    /\ last = NoCall
    /\ NoLogs
    /\ NoConns
    /\ NoDetail

\* start_proxy opens the proxy's log for append: created when absent
ProxyOpens ==
    /\ log_file' = [log_file EXCEPT !.exists = TRUE]
    /\ got' = NoAnswer
    /\ UNCHANGED <<managerVars, proxyVars, detailVars, lt_file>>

\* the proxy logs an event
ProxyWrites ==
    /\ log_file.exists
    /\ Len(log_file.lines) < MaxLogLines
    /\ log_file' = AppendLine(log_file, "proxy")
    /\ got' = NoAnswer
    /\ UNCHANGED <<managerVars, proxyVars, detailVars, lt_file>>

\* start_public_localtunnel opens the helper's log for writing: created or
\* truncated.  It runs for a tunnel whose proxy has been started, and no
\* log is ever deleted.
LauncherOpens ==
    /\ log_file.exists
    /\ lt_file' = [exists |-> TRUE, lines |-> <<>>]
    /\ got' = NoAnswer
    /\ UNCHANGED <<managerVars, proxyVars, detailVars, log_file>>

\* the launcher copies a line of the helper's output
HelperWrites ==
    /\ lt_file.exists
    /\ Len(lt_file.lines) < MaxLogLines
    /\ lt_file' = AppendLine(lt_file, "helper")
    /\ got' = NoAnswer
    /\ UNCHANGED <<managerVars, proxyVars, detailVars, log_file>>

ReadLogs ==
    \E lines \in 0 .. MaxLinesArg :
        /\ got' = [called |-> TRUE, lines |-> lines,
                   out |-> GetLogs(log_file, lt_file, lines)]
        /\ UNCHANGED <<managerVars, proxyVars, detailVars, log_file, lt_file>>

LogsNext ==
    \/ ProxyOpens
    \/ ProxyWrites
    \/ LauncherOpens
    \/ HelperWrites
    \/ ReadLogs

LogsSpec == LogsInit /\ [][LogsNext]_vars

\* One proxy process, ready on its public port, and the connections made
\* to it.  Every step is one resumption of a coroutine of proxy.py or one
\* act of a peer.
ProxyInit ==
    /\ tunnels = EmptyMap
    /\ file = NoFile
    /\ procs = EmptyMap
    /\ foreign = {}
    /\ last = NoCall
    /\ NoLogs
    /\ NoConns
    /\ NoDetail

\* connection c becomes r; nothing else changes
Becomes1(c, r) ==
    /\ conns' = [conns EXCEPT ![c] = r]
    /\ UNCHANGED <<managerVars, logVars, detailVars, server, drains>>

Open(c) == conns[c].phase \in {"peek", "connect", "relay"}

\* start_server's callback: handle_client starts and logs the peer
Accept(c, streams) ==
    \E s \in streams :
        /\ server = "ready"
        /\ conns[c].phase = "free"
        /\ Becomes1(c, [FreeConn EXCEPT !.phase = "peek", !.out = s,
                                        !.reply = Reply,
                                        !.log = <<<<"conn accepted">>>>])

\* the client's next bytes reach client_reader (which stops reading the
\* socket once it holds more than twice its limit)
ClientSends(c) ==
    LET k == conns[c]
    IN /\ Open(c)
       /\ ~k.ceof /\ ~k.cclosed
       /\ k.out # <<>>
       /\ Len(k.cbuf) <= 2 * Limit
       /\ Becomes1(c, [k EXCEPT !.out = Tail(k.out),
                                !.sent = Append(k.sent, Head(k.out)),
                                !.cbuf = Append(k.cbuf, Head(k.out))])

\* the client has sent everything and shuts down its sending side
ClientEof(c) ==
    LET k == conns[c]
    IN /\ Open(c)
       /\ ~k.ceof /\ ~k.cclosed
       /\ k.out = <<>>
       /\ Becomes1(c, [k EXCEPT !.ceof = TRUE])

\* the log after the handler has looked at `initial`
LogRequest(log, initial) ==
    LET req == IF initial # <<>> THEN TryParseHttpRequest(initial)
               ELSE NoRequest
    IN IF req.ok
       THEN Append(log, <<"http", req.method, req.path,
                          IF req.host # NoStr THEN req.host ELSE "-">>)
       ELSE log

\* a variant that closes nothing when the connect fails
ConnectFailsLeavesOpen(c) ==
    LET k == conns[c]
    IN /\ k.phase = "connect"
       /\ Becomes1(c, [k EXCEPT !.attempts = k.attempts + 1,
                                !.log = Append(k.log,
                                               <<"upstream connect failed">>),
                                !.phase = "closed"])

\* readuntil returns or raises: the handler keeps `initial`, logs the
\* request line if it parses, and goes on to connect
PeekEnds(c) ==
    LET k == conns[c]
        r == ReadUntil(k.cbuf, k.ceof)
    IN /\ k.phase = "peek"
       /\ r.kind # "wait"
       /\ Becomes1(c, [k EXCEPT !.peek = r.kind, !.initial = r.chunk,
                                !.cbuf = r.rest,
                                !.log = LogRequest(k.log, r.chunk),
                                !.phase = "connect"])

\* wait_for gives up while readuntil is waiting: initial = b"", the reader
\* keeps what it holds
PeekTimesOut(c) ==
    LET k == conns[c]
    IN /\ k.phase = "peek"
       /\ ReadUntil(k.cbuf, k.ceof).kind = "wait"
       /\ Becomes1(c, [k EXCEPT !.peek = "timeout",
                                !.log = LogRequest(k.log, <<>>),
                                !.phase = "connect"])

\* open_connection succeeds: `initial` is written upstream and the two
\* _pipe tasks are created
Connects(c) ==
    LET k == conns[c]
    IN /\ k.phase = "connect"
       /\ Becomes1(c, [k EXCEPT !.attempts = k.attempts + 1,
                                !.tgot = k.initial,
                                !.t1 = "running", !.t2 = "running",
                                !.phase = "relay"])

\* open_connection raises: the failure is logged, the client's writer is
\* closed and the handler returns
ConnectFails(c) ==
    LET k == conns[c]
    IN /\ k.phase = "connect"
       /\ Becomes1(c, [k EXCEPT !.attempts = k.attempts + 1,
                                !.log = Append(k.log,
                                               <<"upstream connect failed">>),
                                !.cclosed = TRUE, !.ceof = TRUE,
                                !.phase = "closed"])

\* _pipe(client_reader, upstream_writer): one read and write
ClientToTarget(c) ==
    LET k == conns[c]
        r == ReadChunk(k.cbuf)
    IN /\ k.phase = "relay" /\ k.t1 = "running"
       /\ k.cbuf # <<>>
       /\ Becomes1(c, [k EXCEPT !.tgot = k.tgot \o r.data, !.cbuf = r.rest])

\* _pipe(client_reader, upstream_writer) meets the end of the stream and
\* closes upstream_writer
ClientToTargetEnds(c) ==
    LET k == conns[c]
    IN /\ k.phase = "relay" /\ k.t1 = "running"
       /\ k.cbuf = <<>> /\ k.ceof
       /\ Becomes1(c, [k EXCEPT !.t1 = "done", !.uclosed = TRUE,
                                !.ueof = TRUE])

\* the target's next bytes reach upstream_reader
TargetSends(c) ==
    LET k == conns[c]
    IN /\ k.phase = "relay"
       /\ ~k.ueof /\ ~k.uclosed
       /\ k.reply # <<>>
       /\ Becomes1(c, [k EXCEPT !.reply = Tail(k.reply),
                                !.tsent = Append(k.tsent, Head(k.reply)),
                                !.ubuf = Append(k.ubuf, Head(k.reply))])

\* the target has sent everything and closes its sending side
TargetEof(c) ==
    LET k == conns[c]
    IN /\ k.phase = "relay"
       /\ ~k.ueof /\ ~k.uclosed
       /\ k.reply = <<>>
       /\ Becomes1(c, [k EXCEPT !.ueof = TRUE])

\* _pipe(upstream_reader, client_writer): one read and write
TargetToClient(c) ==
    LET k == conns[c]
        r == ReadChunk(k.ubuf)
    IN /\ k.phase = "relay" /\ k.t2 = "running"
       /\ k.ubuf # <<>>
       /\ Becomes1(c, [k EXCEPT !.cgot = k.cgot \o r.data, !.ubuf = r.rest])

\* _pipe(upstream_reader, client_writer) meets the end of the stream and
\* closes client_writer
TargetToClientEnds(c) ==
    LET k == conns[c]
    IN /\ k.phase = "relay" /\ k.t2 = "running"
       /\ k.ubuf = <<>> /\ k.ueof
       /\ Becomes1(c, [k EXCEPT !.t2 = "done", !.cclosed = TRUE,
                                !.ceof = TRUE])

\* asyncio.wait returns because a task is done: the handler asks the
\* pending task to cancel, logs the end of the connection and returns
Finishes(c) ==
    LET k == conns[c]
        cancel(t) == IF t = "running" THEN "cancelling" ELSE t
    IN /\ k.phase = "relay"
       /\ "done" \in {k.t1, k.t2}
       /\ Becomes1(c, [k EXCEPT !.t1 = cancel(k.t1), !.t2 = cancel(k.t2),
                                !.log = Append(k.log, <<"conn closed">>),
                                !.phase = "closed"])

\* a variant in which a cancelled task leaves its writer open
CancelledLeavesOpen(c) ==
    LET k == conns[c]
        end(t) == IF t = "cancelling" THEN "cancelled" ELSE t
    IN /\ "cancelling" \in {k.t1, k.t2}
       /\ Becomes1(c, [k EXCEPT !.t1 = end(k.t1), !.t2 = end(k.t2)])

\* CancelledError reaches a _pipe task: its finally clause closes its writer
Cancelled(c) ==
    LET k == conns[c]
    IN /\ "cancelling" \in {k.t1, k.t2}
       /\ Becomes1(c, [k EXCEPT
                         !.t1 = IF k.t1 = "cancelling" THEN "cancelled"
                                ELSE k.t1,
                         !.t2 = IF k.t2 = "cancelling" THEN "cancelled"
                                ELSE k.t2,
                         !.uclosed = k.uclosed \/ k.t1 = "cancelling",
                         !.ueof = k.ueof \/ k.t1 = "cancelling",
                         !.cclosed = k.cclosed \/ k.t2 = "cancelling",
                         !.ceof = k.ceof \/ k.t2 = "cancelling"])

\* one connection, every stream
RelayNext ==
    \/ Accept("c1", Streams)
    \/ ClientSends("c1")
    \/ ClientEof("c1")
    \/ PeekEnds("c1")
    \/ PeekTimesOut("c1")
    \/ Connects("c1")
    \/ ConnectFails("c1")
    \/ ClientToTarget("c1")
    \/ ClientToTargetEnds("c1")
    \/ TargetSends("c1")
    \/ TargetEof("c1")
    \/ TargetToClient("c1")
    \/ TargetToClientEnds("c1")
    \/ Finishes("c1")
    \/ Cancelled("c1")

RelaySpec == ProxyInit /\ [][RelayNext]_vars

\* what the clients send when two connections are followed together
PlainStreams == {<<"bin">>}

\* two connections to the same proxy
ProxyNext ==
    \E c \in ConnIds :
        \/ Accept(c, PlainStreams)
        \/ ClientSends(c)
        \/ ClientEof(c)
        \/ PeekEnds(c)
        \/ PeekTimesOut(c)
        \/ Connects(c)
        \/ ConnectFails(c)
        \/ ClientToTarget(c)
        \/ ClientToTargetEnds(c)
        \/ TargetSends(c)
        \/ TargetEof(c)
        \/ TargetToClient(c)
        \/ TargetToClientEnds(c)
        \/ Finishes(c)
        \/ Cancelled(c)

ProxySpec == ProxyInit /\ [][ProxyNext]_vars

\* The proxy process from readiness to exit: one connection, the signal
\* and the shutdown of run_server.
ServeInit ==
    /\ tunnels = EmptyMap
    /\ file = NoFile
    /\ procs = EmptyMap
    /\ foreign = {}
    /\ last = NoCall
    /\ NoLogs
    /\ server = "ready"
    /\ conns = [c \in ConnIds |-> FreeConn]
    /\ drains \in BOOLEAN
    /\ NoDetail

\* what a client sends here: a complete request, or bytes that are none
ServeStreams ==
    {<<"GET", SP, "/hook", SP, "HTTP/1.1", CRLF, CRLF>>, <<"bin">>}

\* a read of a _pipe task raises because its peer reset the connection:
\* the finally clause closes the task's writer and the task is done
PipeFails(c) ==
    LET k == conns[c]
    IN /\ k.phase = "relay"
       /\ \/ /\ k.t1 = "running" /\ ~k.ceof
             /\ Becomes1(c, [k EXCEPT !.t1 = "done", !.uclosed = TRUE,
                                      !.ueof = TRUE, !.ceof = TRUE,
                                      !.out = <<>>, !.cbuf = <<>>])
          \/ /\ k.t2 = "running" /\ ~k.ueof
             /\ Becomes1(c, [k EXCEPT !.t2 = "done", !.cclosed = TRUE,
                                      !.ceof = TRUE, !.ueof = TRUE,
                                      !.reply = <<>>, !.ubuf = <<>>])

\* the server only moves
ServerBecomes(s) ==
    /\ server' = s
    /\ UNCHANGED <<managerVars, logVars, detailVars, conns, drains>>

\* SIGTERM or SIGINT is delivered: _request_stop sets the event
Signalled ==
    /\ server = "ready"
    /\ ServerBecomes("stopping")

\* run_server resumes from stop.wait() and leaves `async with server`:
\* Server.close() stops the listener
ServerCloses ==
    /\ server = "stopping"
    /\ ServerBecomes("closing")

\* the client's transport of connection c is still attached to the server
Attached(c) == conns[c].phase # "free" /\ ~conns[c].cclosed

\* a connection when the event loop is torn down: asyncio.run cancels the
\* tasks that are left, whose finally clauses close their writers, and the
\* handler writes nothing more
TornDown(k) ==
    LET cancel(t) == IF t \in {"running", "cancelling"} THEN "cancelled"
                     ELSE t
    IN IF k.phase = "free" THEN k
       ELSE [k EXCEPT !.phase = "closed", !.t1 = cancel(k.t1),
                      !.t2 = cancel(k.t2), !.cclosed = TRUE,
                      !.uclosed = TRUE, !.ceof = TRUE, !.ueof = TRUE]

\* whether Server.wait_closed() can return
CanExit(d) == d => \A c \in ConnIds : ~Attached(c)

\* Server.wait_closed() returns: "proxy stopped" is written, run_server
\* returns, asyncio.run tears the loop down and the process exits
ServerExits ==
    /\ server = "closing"
    /\ CanExit(drains)
    /\ server' = "exited"
    /\ conns' = [c \in ConnIds |-> TornDown(conns[c])]
    /\ UNCHANGED <<managerVars, logVars, detailVars, drains>>

\* what the peers and the sender of the signal do
ServePeers ==
    \/ Accept("c1", ServeStreams)
    \/ ClientSends("c1")
    \/ ClientEof("c1")
    \/ TargetSends("c1")
    \/ TargetEof("c1")
    \/ PipeFails("c1")
    \/ Signalled

\* how the handler's look at the first bytes ends
ServePeeks ==
    \/ PeekEnds("c1")
    \/ PeekTimesOut("c1")

\* what else the proxy's event loop does
ServeLoop ==
    \/ Connects("c1")
    \/ ConnectFails("c1")
    \/ ClientToTarget("c1")
    \/ ClientToTargetEnds("c1")
    \/ TargetToClient("c1")
    \/ TargetToClientEnds("c1")
    \/ Finishes("c1")
    \/ Cancelled("c1")
    \/ ServerCloses
    \/ ServerExits

ServeNext == ServePeers \/ ServePeeks \/ ServeLoop

\* The event loop takes a step whenever one is ready, and the look at the
\* first bytes ends (readuntil returns or raises, or wait_for's timeout
\* fires); peers and signals owe nothing.
ServeSpec ==
    /\ ServeInit
    /\ [][ServeNext]_vars
    /\ WF_vars(ServeLoop)
    /\ []<>(conns["c1"].phase # "peek")

\* create_tunnel with an automatic port, statement by statement, beside the
\* child it spawns and the other programs of the machine.  The user's
\* services are up.
GapInit ==
    /\ tunnels = EmptyMap
    /\ file = NoFile
    /\ procs = EmptyMap
    /\ foreign = LocalPorts
    /\ last = NoCall
    /\ NoLogs
    /\ NoConns
    /\ NoDetail

GapFrame == UNCHANGED <<last, logVars, proxyVars, runnerVars, launchVars,
                        peer, reap>>

\* the call passes its two checks and find_available_port probes the ports
CreateProbes ==
    \E name \in Names, local_port \in LocalPorts :
        /\ making.pc \in {"idle", "stored", "failed"}
        /\ CreateCheck(Here, name, local_port) = NoStr
        /\ CanSpawn(1)
        /\ LET port == FindAvailablePort(tunnels, procs)
           IN making' = IF port = None
                        THEN [NoMaking EXCEPT !.pc = "failed", !.name = name,
                                              !.local_port = local_port,
                                              !.err = "NoPortAvailable"]
                        ELSE [NoMaking EXCEPT !.pc = "probed", !.name = name,
                                              !.local_port = local_port,
                                              !.port = port]
        /\ UNCHANGED <<tunnels, file, procs, foreign>>
        /\ GapFrame

\* start_proxy: Popen returns and the grace period begins
CreateSpawns ==
    /\ making.pc = "probed"
    /\ CanSpawn(1)
    /\ LET pid == FreshPid(tunnels, procs)
       IN /\ procs' = Put(procs, pid, StartingProcess(making.port))
          /\ making' = [making EXCEPT !.pc = "sleeping", !.pid = pid]
    /\ UNCHANGED <<tunnels, file, foreign>>
    /\ GapFrame

\* the child reaches asyncio.start_server: it binds its port, or the bind
\* fails and the process exits
ChildBinds ==
    \E pid \in DOMAIN procs :
        /\ procs[pid].kind = "starting"
        /\ procs' = AfterBind(Remove(procs, pid), pid, procs[pid].port)
        /\ UNCHANGED <<tunnels, file, foreign, making>>
        /\ GapFrame

\* process.poll() is None
Polled(ps, pid) == pid \in DOMAIN ps

\* start_proxy: the grace period is over and the child is polled
CreatePolls ==
    /\ making.pc = "sleeping"
    /\ making' = IF Polled(procs, making.pid)
                 THEN [making EXCEPT !.pc = "polled"]
                 ELSE [making EXCEPT !.pc = "failed", !.pid = None,
                                     !.err = "ProxyStartFailed"]
    /\ UNCHANGED <<tunnels, file, procs, foreign>>
    /\ GapFrame

\* the record is stored and save_json opens tunnels.json for writing
CreateStores ==
    /\ making.pc = "polled"
    /\ LET arg == SubdomainArg(making.name)
           sub == IF arg = NoStr THEN making.name ELSE arg
           info == [TunnelInfo(making.name, making.local_port, making.port,
                               sub) EXCEPT !.pid = making.pid]
       IN tunnels' = Put(tunnels, making.name, info)
    /\ file' = Truncated
    /\ making' = [making EXCEPT !.pc = "saving", !.before = file]
    /\ UNCHANGED <<procs, foreign>>
    /\ GapFrame

\* json.dump has written the registry, the file is closed and
\* create_tunnel returns
CreateSaves ==
    /\ making.pc = "saving"
    /\ file' = SaveTunnels(tunnels)
    /\ making' = [making EXCEPT !.pc = "stored"]
    /\ UNCHANGED <<tunnels, procs, foreign>>
    /\ GapFrame

\* another program binds a free port of the scanned range
OtherBinds ==
    \E port \in ScanRange :
        /\ IsPortAvailable(procs, port)
        /\ foreign' = foreign \cup {port}
        /\ UNCHANGED <<tunnels, file, procs, making>>
        /\ GapFrame

\* it closes the port again
OtherCloses ==
    \E port \in foreign \cap ScanRange :
        /\ foreign' = foreign \ {port}
        /\ UNCHANGED <<tunnels, file, procs, making>>
        /\ GapFrame

GapNext ==
    \/ CreateProbes
    \/ CreateSpawns
    \/ ChildBinds
    \/ CreatePolls
    \/ CreateStores
    \/ CreateSaves
    \/ OtherBinds
    \/ OtherCloses

GapSpec == GapInit /\ [][GapNext]_vars

\* Runner resolution on one machine: npx comes to and goes from the system
\* path, the user clears the tools directory, managers are instantiated and
\* start_public_localtunnel calls ensure_npx.
RunnerInit ==
    /\ tunnels = EmptyMap
    /\ file = NoFile
    /\ procs = EmptyMap
    /\ foreign = {}
    /\ last = NoCall
    /\ NoLogs
    /\ NoConns
    /\ NoDetail

RunnerFrame ==
    UNCHANGED <<managerVars, logVars, proxyVars, launchVars, peer, reap,
                stepVars>>

\* ensure_npx(interactive).  The terminal, the typed lines and the download
\* are enumerated only where the call consults them.
EnsureRunner ==
    \E interactive \in BOOLEAN :
    LET w == Machine(config, config_file, sys)
        prompts == /\ interactive
                   /\ ~sys.on_path
                   /\ ~(config # NoStr /\ Exists(sys, config))
    IN \E tty \in (IF prompts THEN BOOLEAN ELSE {FALSE}) :
       \E answers \in (IF tty THEN Answers ELSE {<<>>}) :
       LET installs == prompts /\ PromptYesNo(tty, answers, TRUE).ok
       IN \E version \in (IF installs THEN Versions \cup {NoStr}
                          ELSE {NoStr}) :
          \E archive \in (IF version # NoStr THEN Archives
                          ELSE {"release"}) :
          \E expected \in (IF version # NoStr THEN Manifests ELSE {NoStr}) :
          LET r == EnsureNpx(w, interactive,
                             [tty |-> tty, answers |-> answers,
                              version |-> version, archive |-> archive,
                              expected |-> expected])
          IN /\ config' = r.config
             /\ config_file' = r.config_file
             /\ sys' = r.sys
             /\ ran' = [op |-> "ensure", interactive |-> interactive,
                        path |-> r.path, err |-> r.err, asked |-> r.asked,
                        consent |-> r.consent,
                        provisioned |-> r.provisioned,
                        version |-> version, expected |-> expected]
             /\ RunnerFrame

\* Node.js is installed on or removed from the system
PathChanges ==
    /\ sys' = [sys EXCEPT !.on_path = ~sys.on_path]
    /\ ran' = NoRun
    /\ UNCHANGED <<config, config_file>>
    /\ RunnerFrame

\* the user deletes ~/.webhook-tunnel/tools
ToolsRemoved ==
    /\ sys # [NoHost EXCEPT !.on_path = sys.on_path]
    /\ sys' = [NoHost EXCEPT !.on_path = sys.on_path]
    /\ ran' = NoRun
    /\ UNCHANGED <<config, config_file>>
    /\ RunnerFrame

\* npx disappears from an extracted tree (an extraction that was cut
\* short, a clean-up that went too far); the directory stays
RunnerDeleted ==
    \E v \in Versions :
        /\ sys.tree[v] \notin {NoStr, Hollow}
        /\ sys' = [sys EXCEPT !.tree[v] = Hollow]
        /\ ran' = NoRun
        /\ UNCHANGED <<config, config_file>>
        /\ RunnerFrame

\* TunnelManager(): a new instance loads config.json and tunnels.json
ManagerStarts ==
    /\ config' = config_file
    /\ tunnels' = LoadTunnels(file)
    /\ ran' = NoRun
    /\ UNCHANGED <<file, procs, foreign, last, config_file, sys>>
    /\ UNCHANGED <<logVars, proxyVars, launchVars, peer, reap, stepVars>>

RunnerNext ==
    \/ EnsureRunner
    \/ PathChanges
    \/ ToolsRemoved
    \/ RunnerDeleted
    \/ ManagerStarts

RunnerSpec == RunnerInit /\ [][RunnerNext]_vars

\* One call of start_public_localtunnel, statement by statement, with the
\* helper it spawns.  The runner has been resolved.
LaunchInit ==
    /\ tunnels = EmptyMap
    /\ file = NoFile
    /\ procs = EmptyMap
    /\ foreign = {}
    /\ last = NoCall
    /\ NoLogs
    /\ NoConns
    /\ NoDetail

LaunchFrame ==
    UNCHANGED <<managerVars, proxyVars, runnerVars, peer, reap, stepVars,
                log_file, got>>

\* the log is opened for writing and the child is spawned
LauncherSpawns ==
    \E script \in Scripts, pid \in 1 .. MaxPid :
        /\ scan.pc = "idle"
        /\ lt_file' = [exists |-> TRUE, lines |-> <<>>]
        /\ helper' = [pid |-> pid, alive |-> TRUE, script |-> script,
                      pipe |-> <<>>]
        /\ scan' = [scan EXCEPT !.pc = "poll"]
        /\ LaunchFrame

\* the child prints its next line
HelperPrints ==
    /\ helper.alive
    /\ helper.script # <<>>
    /\ helper' = [helper EXCEPT !.script = Tail(helper.script),
                                !.pipe = Append(helper.pipe,
                                                Head(helper.script))]
    /\ UNCHANGED <<scan, lt_file>>
    /\ LaunchFrame

\* the child exits
HelperExits ==
    /\ helper.alive
    /\ helper' = [helper EXCEPT !.alive = FALSE]
    /\ UNCHANGED <<scan, lt_file>>
    /\ LaunchFrame

\* the window is still open and poll() finds the child running: readline
\* is called
LoopPolls ==
    /\ scan.pc = "poll"
    /\ helper.alive
    /\ scan' = [scan EXCEPT !.pc = "read"]
    /\ UNCHANGED <<helper, lt_file>>
    /\ LaunchFrame

\* poll() finds the child gone: RuntimeError, caught by the except clause,
\* which terminates the child (to no effect) and re-raises
LoopFindsExit ==
    /\ scan.pc = "poll"
    /\ ~helper.alive
    /\ scan' = [scan EXCEPT !.pc = "failed", !.terminated = TRUE,
                            !.err = "ExposureFailed"]
    /\ UNCHANGED <<helper, lt_file>>
    /\ LaunchFrame

\* the window has closed: the while loop ends, and with no URL the call
\* raises after the try statement
LoopTimesOut ==
    /\ scan.pc = "poll"
    /\ scan' = [scan EXCEPT !.pc = "failed", !.err = "ExternalUrlTimeout"]
    /\ UNCHANGED <<helper, lt_file>>
    /\ LaunchFrame

\* readline returns a line: it is appended to the log and searched
LoopReads ==
    /\ scan.pc = "read"
    /\ helper.pipe # <<>>
    /\ helper' = [helper EXCEPT !.pipe = Tail(helper.pipe)]
    /\ lt_file' = WriteLine(lt_file, Head(helper.pipe))
    /\ scan' = Scanned(scan, helper, Head(helper.pipe))
    /\ LaunchFrame

\* readline returns '' at the end of the child's output: sleep, continue
LoopReadsEof ==
    /\ scan.pc = "read"
    /\ helper.pipe = <<>>
    /\ ~helper.alive
    /\ scan' = [scan EXCEPT !.pc = "poll"]
    /\ UNCHANGED <<helper, lt_file>>
    /\ LaunchFrame

LaunchNext ==
    \/ LauncherSpawns
    \/ HelperPrints
    \/ HelperExits
    \/ LoopPolls
    \/ LoopFindsExit
    \/ LoopTimesOut
    \/ LoopReads
    \/ LoopReadsEof

LaunchSpec == LaunchInit /\ [][LaunchNext]_vars

\* the statements of the call
LauncherSteps ==
    \/ LoopPolls
    \/ LoopFindsExit
    \/ LoopTimesOut
    \/ LoopReads
    \/ LoopReadsEof

\* The same call when the manager's process keeps running: a statement
\* that can be executed is executed.  The helper owes nothing.
LaunchRunSpec == LaunchSpec /\ WF_vars(LauncherSteps)

\* Two manager instances on one machine (two CLI invocations, or the CLI
\* beside the dashboard): `tunnels` is the registry of the first, `peer`
\* that of the second; they share tunnels.json and the process table.  The
\* user's services are up.
RaceInit ==
    /\ tunnels = EmptyMap
    /\ file = NoFile
    /\ procs = EmptyMap
    /\ foreign = LocalPorts
    /\ last = NoCall
    /\ NoLogs
    /\ NoConns
    /\ NoDetail

PeerFrame ==
    UNCHANGED <<tunnels, foreign, logVars, proxyVars, runnerVars,
                launchVars, reap, stepVars>>

\* what the second instance sees
There == World(peer, file, procs)

\* create_tunnel called on the second instance
PeerCreate ==
    \E name \in Names, local_port \in LocalPorts :
    \E public_port \in PortChoices(CreateCheck(There, name, local_port)
                                      = NoStr) :
    \E exits \in ExitChoices(ReachesProxy(There, name, local_port,
                                          public_port)) :
        /\ Cardinality(FreePids(peer, procs)) >= 1
        /\ LET env == [exits |-> exits, outcome |-> "ok"]
               r == CreateTunnel(There, name, local_port, SubdomainArg(name),
                                 public_port, NoStr, env)
           IN /\ peer' = r.tunnels
              /\ file' = r.file
              /\ procs' = r.procs
              /\ last' = [Call("peer_create", name) EXCEPT
                            !.local_port = local_port,
                            !.env = env, !.err = r.err]
        /\ PeerFrame

\* the second instance is started anew and loads the registry
PeerStarts ==
    /\ peer' = LoadTunnels(file)
    /\ last' = NoCall
    /\ UNCHANGED <<file, procs>>
    /\ PeerFrame

RaceNext ==
    \/ Create
    \/ NewManager
    \/ PeerCreate
    \/ PeerStarts

RaceSpec == RaceInit /\ [][RaceNext]_vars

\* The same two instances while the first one's create_tunnel is followed
\* statement by statement, its save included.
TornNext ==
    \/ CreateProbes
    \/ CreateSpawns
    \/ ChildBinds
    \/ CreatePolls
    \/ CreateStores
    \/ CreateSaves
    \/ PeerCreate
    \/ PeerStarts

TornSpec == RaceInit /\ [][TornNext]_vars

\* The lifecycle on a machine whose other programs start processes too:
\* once a child of the manager is gone, the OS may give its pid to an
\* unrelated process while a record still names it.  The user's services
\* are up.
ReuseInit ==
    /\ tunnels = EmptyMap
    /\ file = NoFile
    /\ procs = EmptyMap
    /\ foreign = LocalPorts
    /\ last = NoCall
    /\ NoLogs
    /\ NoConns
    /\ NoDetail

\* some other program starts a process; the OS gives it a pid not in use
ForeignSpawn ==
    \E pid \in (1 .. MaxPid) \ DOMAIN procs :
        /\ procs' = Put(procs, pid, OtherProcess)
        /\ last' = NoCall
        /\ UNCHANGED <<tunnels, file, foreign, others>>

ReuseNext ==
    \/ Create
    \/ Stop
    \/ Restart
    \/ StartPublicOnly
    \/ StopPublicOnly
    \/ ProcessDies
    \/ ForeignSpawn

ReuseSpec == ReuseInit /\ [][ReuseNext]_vars

\* One call of stop_tunnel or stop_public on a record, with the children
\* the record names.
ReapInit ==
    /\ tunnels = EmptyMap
    /\ file = NoFile
    /\ procs = EmptyMap
    /\ foreign = {}
    /\ last = NoCall
    /\ NoLogs
    /\ NoConns
    /\ NoDetail

ReapFrame ==
    UNCHANGED <<managerVars, logVars, proxyVars, runnerVars, launchVars,
                peer, stepVars>>

\* the call starts on a record that is in the registry
ReapStarts ==
    \E op \in {"stop", "stop_public"} :
    \E h \in {"none", "running", "gone"}, x \in {"running", "gone"} :
        /\ reap.pc = "idle"
        /\ reap' = [NoReap EXCEPT !.op = op, !.pc = "find",
                                  !.kids = [c \in Children |->
                                              IF c = "helper" THEN h ELSE x]]
        /\ ReapFrame

\* a child exits, on its own or because it was asked to
ChildExits ==
    \E c \in Children :
        /\ reap.kids[c] = "running"
        /\ reap' = [reap EXCEPT
                      !.kids[c] = "gone",
                      !.inwait[c] = (reap.pc = "wait" /\ reap.cur = c)]
        /\ ReapFrame

\* `if pid:` and psutil.Process(pid): an empty field or NoSuchProcess end
\* the work on this child
ReapFinds ==
    /\ reap.pc = "find"
    /\ reap' = Proceed(reap, IF reap.kids[reap.cur] = "running"
                             THEN "term" ELSE "next")
    /\ ReapFrame

\* p.terminate(); NoSuchProcess when the child has gone meanwhile
ReapTerminates ==
    /\ reap.pc = "term"
    /\ reap' = Proceed([reap EXCEPT !.calls[reap.cur] =
                                      Append(@, "terminate")],
                       IF reap.kids[reap.cur] = "running"
                       THEN "wait" ELSE "next")
    /\ ReapFrame

\* p.wait(timeout=3) returns: the child has exited
ReapWaitReturns ==
    /\ reap.pc = "wait"
    /\ reap.kids[reap.cur] = "gone"
    /\ reap' = Proceed(reap, Waited(FALSE))
    /\ ReapFrame

\* p.wait(timeout=3) raises TimeoutExpired: the child is still alive
ReapWaitTimesOut ==
    /\ reap.pc = "wait"
    /\ reap.kids[reap.cur] = "running"
    /\ reap' = Proceed([reap EXCEPT !.timedout[reap.cur] = TRUE],
                       Waited(TRUE))
    /\ ReapFrame

\* p.kill(); NoSuchProcess when the child has gone meanwhile
ReapKills ==
    /\ reap.pc = "kill"
    /\ reap' = Proceed([reap EXCEPT !.calls[reap.cur] = Append(@, "kill"),
                                    !.kids[reap.cur] = "gone"],
                       "next")
    /\ ReapFrame

\* the record is deleted or its public fields are cleared, and the
\* registry is saved
ReapSaves ==
    /\ reap.pc = "save"
    /\ reap' = [reap EXCEPT !.pc = "done"]
    /\ ReapFrame

ReapNext ==
    \/ ReapStarts
    \/ ChildExits
    \/ ReapFinds
    \/ ReapTerminates
    \/ ReapWaitReturns
    \/ ReapWaitTimesOut
    \/ ReapKills
    \/ ReapSaves

ReapSpec == ReapInit /\ [][ReapNext]_vars

----------------------------------------------------------------------------
(* Properties *)

\* what a manager instantiated now would hold
Reloaded == LoadTunnels(file)

\* the fields of a record a reloaded registry is compared on
Persistent(t) ==
    <<t.local_port, t.public_port, t.pid, t.public_pid, t.public_url_external>>

\* ports of the scan range that no record reserves and nothing listens on
FreeScanPorts(ts, ps) ==
    {p \in ScanRange : p \notin ReservedPorts(ts) /\ IsPortAvailable(ps, p)}

Lowest(S) == CHOOSE p \in S : \A q \in S : p <= q

\* C1: no two records of the registry have the same public_port.
UniquePublicPorts ==
    \A a \in DOMAIN tunnels, b \in DOMAIN tunnels :
        a # b => tunnels[a].public_port # tunnels[b].public_port

\* C2: when create fails in the bootstrapper or the launcher, the record for
\* the name is stored and persisted with its proxy pid set and the public
\* fields empty.
ExposureFailureKeepsRecord ==
    (last.op = "create" /\ last.err \in ExposureErrors) =>
        /\ last.name \in DOMAIN tunnels
        /\ tunnels[last.name].pid # None
        /\ tunnels[last.name].public_pid = None
        /\ tunnels[last.name].public_url_external = NoStr
        /\ last.name \in DOMAIN Reloaded
        /\ Reloaded[last.name] = tunnels[last.name]

\* C3: stop(name) on a registered name with a recorded pid that no longer
\* exists returns without error and the name is gone from the registry and
\* from the persisted file.
StopRemovesDeadTunnel ==
    [][(last'.op = "stop" /\ HasDeadChild(tunnels, procs, last'.name)) =>
          /\ last'.err = NoStr
          /\ last'.name \notin DOMAIN tunnels'
          /\ last'.name \notin DOMAIN LoadTunnels(file')]_vars

StopOfDeadTunnelSeen ==
    /\ last.op = "stop"
    /\ last.gone
    /\ last.err = NoStr
    /\ last.name \notin DOMAIN tunnels

\* C4 as stated: create fails with LocalServiceNotRunning whenever nothing
\* listens on local_port, spawning nothing and changing neither the registry
\* nor the file.
CreateFailsWhenLocalDown ==
    [][(last'.op = "create" /\ IsPortAvailable(procs, last'.local_port)) =>
          /\ last'.err = "LocalServiceNotRunning"
          /\ UNCHANGED <<tunnels, file, procs>>]_vars

\* C4 amended: create for a name that is not registered fails with
\* LocalServiceNotRunning whenever nothing listens on local_port, spawning
\* nothing and changing neither the registry nor the file.
CreateOfNewNameFailsWhenLocalDown ==
    [][(/\ last'.op = "create"
        /\ last'.name \notin DOMAIN tunnels
        /\ IsPortAvailable(procs, last'.local_port)) =>
          /\ last'.err = "LocalServiceNotRunning"
          /\ UNCHANGED <<tunnels, file, procs>>]_vars

LocalDownSeen ==
    /\ last.op = "create"
    /\ last.err = "LocalServiceNotRunning"
    /\ IsPortAvailable(procs, last.local_port)

\* C5: create fails with DuplicateName whenever the name is registered; the
\* record, the processes and the file stay as they are.
CreateFailsOnDuplicateName ==
    [][(last'.op = "create" /\ last'.name \in DOMAIN tunnels) =>
          /\ last'.err = "DuplicateName"
          /\ UNCHANGED <<tunnels, file, procs>>]_vars

DuplicateNameSeen ==
    /\ last.op = "create"
    /\ last.err = "DuplicateName"
    /\ last.name \in DOMAIN tunnels

\* C6: if the proxy child has exited by the end of the grace period, create
\* fails with ProxyStartFailed and no record for the name is stored or
\* persisted.
ExitedProxyFailsCreate ==
    (last.op = "create" /\ last.env.exits) =>
        /\ last.err = "ProxyStartFailed"
        /\ last.name \notin DOMAIN tunnels
        /\ last.name \notin DOMAIN Reloaded

ExitedProxySeen ==
    /\ last.op = "create"
    /\ last.env.exits
    /\ last.err = "ProxyStartFailed"

\* C7: after a create, stop, startPublicOnly, stopPublicOnly or cleanupDead
\* that returns successfully, a newly instantiated manager loads the names
\* of the in-memory registry, with the same local_port, public_port, pid,
\* public_pid and public_url_external for each.
ReloadAgreesAfterSuccess ==
    (/\ last.op \in {"create", "stop", "start_public", "stop_public",
                     "cleanup"}
     /\ last.err = NoStr) =>
        /\ DOMAIN Reloaded = DOMAIN tunnels
        /\ \A n \in DOMAIN tunnels :
              Persistent(Reloaded[n]) = Persistent(tunnels[n])

DetachPersistedSeen ==
    /\ last.op = "stop_public"
    /\ last.err = NoStr
    /\ tunnels[last.name].public_provider # NoStr
    /\ tunnels[last.name].public_pid = None
    /\ Reloaded = tunnels

\* C8: a create without public_port takes the lowest port of the scan range
\* that no record reserves and nothing listens on, hence a port no other
\* record has; when there is none it fails with NoPortAvailable and stores
\* nothing.
AutoPortIsLowestFree ==
    [][(last'.op = "create" /\ last'.auto) =>
          LET free == FreeScanPorts(tunnels, procs)
          IN /\ free = {} =>
                  /\ last'.err = "NoPortAvailable"
                  /\ UNCHANGED <<tunnels, file, procs>>
             /\ free # {} => last'.err # "NoPortAvailable"
             /\ last'.err = NoStr =>
                  /\ tunnels'[last'.name].public_port = Lowest(free)
                  /\ \A n \in DOMAIN tunnels :
                        tunnels[n].public_port
                            # tunnels'[last'.name].public_port]_vars

SecondAutoPortSeen ==
    /\ last.op = "create"
    /\ last.auto
    /\ last.err = NoStr
    /\ Cardinality(DOMAIN tunnels) = 2
    /\ tunnels[last.name].public_port > ScanStart

\* C9: after a restart that returns successfully the record has the
\* local_port, subdomain and public_port it had before.
RestartKeepsPorts ==
    [][(last'.op = "restart" /\ last'.err = NoStr) =>
          /\ last'.name \in DOMAIN tunnels
          /\ last'.name \in DOMAIN tunnels'
          /\ tunnels'[last'.name].local_port = tunnels[last'.name].local_port
          /\ tunnels'[last'.name].subdomain = tunnels[last'.name].subdomain
          /\ tunnels'[last'.name].public_port
                = tunnels[last'.name].public_port]_vars

RestartedSeen ==
    /\ last.op = "restart"
    /\ last.err = NoStr
    /\ tunnels[last.name].public_port > ScanStart
    /\ tunnels[last.name].subdomain # last.name

\* stop(name), then create with the fields record t had
StopThenCreate(w, name, t, env) ==
    LET stopped == StopTunnel(w, name)
    IN IF stopped.err # NoStr THEN stopped
       ELSE CreateTunnel(World(stopped.tunnels, stopped.file, stopped.procs),
                         name, t.local_port, t.subdomain, t.public_port,
                         t.public_provider, env)

\* C10: restart(name) leaves what stop(name) followed by create with the
\* previous local_port, subdomain, public_port and public_provider leaves;
\* when that create fails, restart fails with its error and the registry is
\* the one the stop left.
RestartIsStopThenCreate ==
    [][(last'.op = "restart" /\ last'.name \in DOMAIN tunnels) =>
          LET name == last'.name
              seq == StopThenCreate(Here, name, tunnels[name], last'.env)
          IN /\ tunnels' = seq.tunnels
             /\ file' = seq.file
             /\ procs' = seq.procs
             /\ last'.err = seq.err
             /\ seq.err # NoStr =>
                  /\ tunnels' = StopTunnel(Here, name).tunnels
                  /\ name \notin DOMAIN tunnels']_vars

RestartFailedSeen ==
    /\ last.op = "restart"
    /\ last.err \in ExposureErrors
    /\ last.name \notin DOMAIN tunnels

\* C11: stop, restart, startPublicOnly and stopPublicOnly with a name that is
\* not registered fail with NotFound; no process is signalled or spawned and
\* the registry and the file stay as they are.
UnknownNameFailsNotFound ==
    [][(/\ last'.op \in {"stop", "restart", "start_public", "stop_public"}
        /\ last'.name \notin DOMAIN tunnels) =>
          /\ last'.err = "NotFound"
          /\ UNCHANGED <<tunnels, file, procs>>]_vars

UnknownNameSeen ==
    /\ last.op = "stop_public"
    /\ last.err = "NotFound"
    /\ last.name \notin DOMAIN tunnels
    /\ \E n \in DOMAIN tunnels : ExposureAlive(tunnels, procs, n)

\* C12: startPublicOnly on a tunnel whose proxy and recorded exposure helper
\* are both alive succeeds and changes nothing: no process is spawned, the
\* record keeps its public_pid and public_url_external, the file is as it was.
StartPublicOfExposedIsNoOp ==
    [][(/\ last'.op = "start_public"
        /\ last'.name \in DOMAIN tunnels
        /\ GetProcessInfo(procs, tunnels[last'.name].pid)
        /\ ExposureAlive(tunnels, procs, last'.name)) =>
          /\ last'.err = NoStr
          /\ UNCHANGED <<tunnels, file, procs>>]_vars

\* the call saved nothing: the status a list had written is not in the file
StartPublicNoOpSeen ==
    /\ last.op = "start_public"
    /\ last.err = NoStr
    /\ ExposureAlive(tunnels, procs, last.name)
    /\ tunnels[last.name].public_url_external = HelperUrl
    /\ tunnels[last.name].status = "running"
    /\ file # SaveTunnels(tunnels)

\* C13: startPublicOnly on a record whose proxy pid is unset or fails the
\* liveness probe fails with ProxyNotRunning; no helper is spawned and the
\* record is unchanged.
StartPublicNeedsLiveProxy ==
    [][(/\ last'.op = "start_public"
        /\ last'.name \in DOMAIN tunnels
        /\ \/ tunnels[last'.name].pid = None
           \/ ~GetProcessInfo(procs, tunnels[last'.name].pid)) =>
          /\ last'.err = "ProxyNotRunning"
          /\ UNCHANGED <<tunnels, file, procs>>]_vars

ProxyNotRunningSeen ==
    /\ last.op = "start_public"
    /\ last.err = "ProxyNotRunning"
    /\ ExposureAlive(tunnels, procs, last.name)
    /\ ~GetProcessInfo(procs, tunnels[last.name].pid)

\* the recorded proxy pid of record t passes the liveness probe
ProxyAlive(t, ps) == t.pid # None /\ GetProcessInfo(ps, t.pid)

\* C14: after list() every record has status 'running' if its proxy pid
\* passes the liveness probe and 'dead' otherwise; none keeps 'active' or
\* the status of an earlier probe.
ListedStatusIsProbed ==
    last.op = "list" =>
        \A n \in DOMAIN tunnels :
            tunnels[n].status =
                IF ProxyAlive(tunnels[n], procs) THEN "running" ELSE "dead"

ListedAfterDeathSeen ==
    /\ last.op = "list"
    /\ \E n \in DOMAIN tunnels :
          /\ tunnels[n].status = "dead"
          /\ tunnels[n].process_info # None
    /\ \E n \in DOMAIN tunnels : tunnels[n].status = "running"

\* C15: cleanupDead() removes exactly the records whose proxy pid no longer
\* exists, returns their names, leaves the other records as they are and
\* rewrites the file if and only if it removed a record.
CleanupRemovesDeadProxies ==
    [][last'.op = "cleanup" =>
          LET dead == {n \in DOMAIN tunnels :
                          tunnels[n].pid \notin DOMAIN procs}
          IN /\ DOMAIN tunnels' = DOMAIN tunnels \ dead
             /\ \A n \in DOMAIN tunnels' : tunnels'[n] = tunnels[n]
             /\ last'.removed = dead
             /\ dead = {} => file' = file
             /\ dead # {} => file' = SaveTunnels(tunnels')]_vars

CleanupRemovedSeen ==
    /\ last.op = "cleanup"
    /\ last.removed # {}
    /\ \E n \in DOMAIN tunnels : tunnels[n].status = "running"
    /\ file = SaveTunnels(tunnels)

\* C16: stats() reports total_tunnels = the number of records,
\* active_tunnels = the number of records list() would mark 'running' in
\* the same process state, dead_tunnels = total_tunnels - active_tunnels.
StatsAgreeWithList ==
    last.op = "stats" =>
        LET listed == ListTunnels(Here).tunnels
        IN /\ last.stats.total_tunnels = Cardinality(DOMAIN tunnels)
           /\ last.stats.active_tunnels =
                 Cardinality({n \in DOMAIN listed :
                                 listed[n].status = "running"})
           /\ last.stats.dead_tunnels =
                 last.stats.total_tunnels - last.stats.active_tunnels

StatsOfStaleRegistrySeen ==
    /\ last.op = "stats"
    /\ last.stats.active_tunnels = 1
    /\ last.stats.dead_tunnels = 1
    /\ \A n \in DOMAIN tunnels : tunnels[n].status = "running"

\* the last k lines of a log, none when the file is absent
TailOf(f, k) ==
    LET n == Len(f.lines)
        m == IF k < n THEN k ELSE n
    IN [i \in 1 .. m |-> f.lines[n - m + i]]

\* C17: for every maxLines >= 0 getLogs returns the last min(maxLines, n)
\* lines of the proxy log, followed, when the helper's log exists, by the
\* label and the last min(maxLines, m) lines of that log.
LogsAreTails ==
    got.called =>
        got.out = TailOf(log_file, got.lines)
                    \o (IF lt_file.exists
                        THEN <<PublicLabel>> \o TailOf(lt_file, got.lines)
                        ELSE <<>>)

\* a is an initial part of b
IsPrefix(a, b) == Len(a) <= Len(b) /\ a = SubSeq(b, 1, Len(a))

\* the handler of connection c got through to the target
Connected(c) == conns[c].t1 # "none"

\* the handler of connection c has returned and its tasks have ended
Over(c) ==
    /\ conns[c].phase = "closed"
    /\ "cancelling" \notin {conns[c].t1, conns[c].t2}

\* C18 as stated: for every connection that reached the target, however
\* the peek ended, the target has received exactly the bytes the client
\* sent and the client exactly the bytes the target sent.
StreamsRelayedWhole ==
    \A c \in ConnIds :
        (Connected(c) /\ Over(c)) =>
            /\ conns[c].tgot = conns[c].sent
            /\ conns[c].cgot = conns[c].tsent

\* C18 amended: in each direction the bytes delivered are an initial part of
\* the bytes sent, in order and each once, the peeked bytes first; while the
\* direction's task runs the bytes not yet delivered are held in its reader;
\* when the task ends at the end of the stream all the bytes are delivered.
StreamsRelayedInOrder ==
    \A c \in ConnIds :
        Connected(c) =>
            LET k == conns[c]
            IN /\ IsPrefix(k.initial, k.tgot)
               /\ IsPrefix(k.tgot, k.sent)
               /\ k.t1 = "running" => k.tgot \o k.cbuf = k.sent
               /\ k.t1 = "done" => k.tgot = k.sent
               /\ IsPrefix(k.cgot, k.tsent)
               /\ k.t2 = "running" => k.cgot \o k.ubuf = k.tsent
               /\ k.t2 = "done" => k.cgot = k.tsent

PartialPeekRelayedSeen ==
    /\ Over("c1")
    /\ conns["c1"].peek = "incomplete"
    /\ conns["c1"].initial # <<>>
    /\ conns["c1"].t1 = "done"
    /\ conns["c1"].tgot = conns["c1"].sent
    /\ conns["c1"].cgot = Reply

\* the first line of a header block
FirstLine(head) == Split(head, CRLF)[1]

\* the line is '<method> <path> HTTP/...'
IsRequestLine(line) ==
    /\ Len(line) = 5
    /\ line[2] = SP /\ line[4] = SP
    /\ line[1] # SP /\ line[3] # SP
    /\ StartsWithHttp(line[5])

HttpLines(c) ==
    {i \in 1 .. Len(conns[c].log) : conns[c].log[i][1] = "http"}

\* C19 as stated: an 'http <method> <path> host=<host>' line is logged for
\* a connection if and only if the peek ended with a complete header block
\* whose first line is '<method> <path> HTTP/...' with method one of GET,
\* POST, PUT, PATCH, DELETE, HEAD, OPTIONS.
HttpLineIffKnownMethod ==
    \A c \in ConnIds :
        conns[c].phase \in {"connect", "relay", "closed"} =>
            LET line == FirstLine(conns[c].initial)
            IN HttpLines(c) # {} <=>
                  /\ conns[c].peek = "match"
                  /\ IsRequestLine(line)
                  /\ line[1] \in HTTP_METHODS

\* C19 amended: the line is logged if and only if the peek ended with a
\* complete header block whose first line is '<method> <path> HTTP/...' with
\* method, in any letter case, one of GET, POST, PUT, PATCH, DELETE, HEAD,
\* OPTIONS; it records the method in upper case, the path and the host.
HttpLineIffKnownMethodAnyCase ==
    \A c \in ConnIds :
        conns[c].phase \in {"connect", "relay", "closed"} =>
            LET line == FirstLine(conns[c].initial)
                known == /\ conns[c].peek = "match"
                         /\ IsRequestLine(line)
                         /\ Upper(line[1]) \in HTTP_METHODS
            IN /\ HttpLines(c) # {} <=> known
               /\ known =>
                    /\ HttpLines(c) = {2}
                    /\ conns[c].log[2][2] = Upper(line[1])
                    /\ conns[c].log[2][3] = line[3]
                    /\ conns[c].log[2][4] \in {"x", "-"}
                    /\ conns[c].log[2][4] = "x"
                          <=> \E i \in 1 .. Len(conns[c].initial) :
                                 IsHostLine(conns[c].initial[i])

LowerCaseMethodLoggedSeen ==
    /\ conns["c1"].phase = "closed"
    /\ conns["c1"].peek = "match"
    /\ Head(conns["c1"].initial) = "get"
    /\ HttpLines("c1") = {2}
    /\ conns["c1"].log[2] = <<"http", "GET", "/hook", "x">>

\* C20: when the connect to the target fails the handler logs the failure,
\* closes the client's connection and returns after that one attempt; no
\* byte of the connection is relayed, then or later, and the other
\* connections and the listener are as they were.
ConnectFailureIsContained ==
    /\ [][\A c \in ConnIds :
            (conns[c].phase = "connect" /\ conns'[c].phase = "closed") =>
                /\ conns'[c].log
                      = Append(conns[c].log, <<"upstream connect failed">>)
                /\ conns'[c].cclosed
                /\ conns'[c].attempts = 1
                /\ \A d \in ConnIds \ {c} : conns'[d] = conns[d]
                /\ server' = server]_vars
    /\ [](\A c \in ConnIds :
            (conns[c].phase = "closed" /\ ~Connected(c)) =>
                /\ conns[c].attempts = 1
                /\ conns[c].tgot = <<>>
                /\ conns[c].cgot = <<>>
                /\ conns[c].t1 = "none" /\ conns[c].t2 = "none")

ConnectFailedBesideRelaySeen ==
    /\ conns["c1"].phase = "closed"
    /\ ~Connected("c1")
    /\ conns["c1"].cbuf # <<>>
    /\ conns["c2"].phase = "relay"
    /\ conns["c2"].tgot # <<>>
    /\ server = "ready"

\* a bundled runner is recorded and its file exists
Cached == config # NoStr /\ Exists(sys, config)

\* C21: ensure_npx(interactive) returns the runner on the system path when
\* there is one; else the runner path recorded in bundled_node when that
\* file still exists; else, only when interactive and given consent, it
\* provisions a runner; otherwise it fails with RunnerNotFound.  A call
\* with interactive = false never prompts and never provisions.
EnsureRunnerOrder ==
    [][ran'.op = "ensure" =>
          /\ sys.on_path =>
                /\ ran'.path = SystemNpx /\ ran'.err = NoStr
                /\ ran'.asked = 0 /\ ~ran'.provisioned
          /\ (~sys.on_path /\ Cached) =>
                /\ ran'.path = config /\ ran'.err = NoStr
                /\ ran'.asked = 0 /\ ~ran'.provisioned
          /\ (~sys.on_path /\ ~Cached
                /\ ~(ran'.interactive /\ ran'.consent)) =>
                /\ ran'.path = NoStr /\ ran'.err = "RunnerNotFound"
                /\ ~ran'.provisioned
          /\ (~sys.on_path /\ ~Cached
                /\ ran'.interactive /\ ran'.consent) =>
                /\ ran'.provisioned
                /\ ran'.err = NoStr =>
                      /\ ran'.path = config'
                      /\ Exists(sys', ran'.path)
          /\ ~ran'.interactive => ran'.asked = 0 /\ ~ran'.provisioned
          /\ ~ran'.provisioned => UNCHANGED <<config, config_file, sys>>]_vars

ProvisionedAfterSecondAnswerSeen ==
    /\ ran.op = "ensure"
    /\ ran.interactive /\ ran.consent /\ ran.provisioned
    /\ ran.asked = 2
    /\ ran.err = NoStr
    /\ ran.path = config
    /\ ~sys.on_path

\* an ensure_npx that cannot ask and does not download
Quiet ==
    [tty |-> FALSE, answers |-> <<>>, version |-> NoStr,
     archive |-> "release", expected |-> NoStr]

\* C22: when the digest of the downloaded archive differs from the one the
\* manifest lists, install_portable_node_lts fails with ChecksumMismatch,
\* nothing is extracted, bundled_node is neither set nor saved, and a later
\* ensure_npx returns no runner that was not there before the download.
ChecksumMismatchLeavesNoRunner ==
    [][ran'.err = "ChecksumMismatch" =>
          /\ ran'.path = NoStr
          /\ sys'.tree = sys.tree
          /\ config' = config
          /\ config_file' = config_file
          /\ \A c \in {config', config_file'} :
                LET later == EnsureNpx(Machine(c, config_file', sys'),
                                       FALSE, Quiet)
                IN later.path # NoStr => Exists(sys, later.path)]_vars

ChecksumMismatchSeen ==
    /\ ran.op = "ensure"
    /\ ran.err = "ChecksumMismatch"
    /\ ran.provisioned
    /\ \E v \in Versions :
          /\ sys.archive[v] = "tampered"
          /\ sys.tree[v] = NoStr
    /\ config = NoStr
    /\ config_file = NoStr

\* what the child has printed so far, in order
Printed == scan.read \o helper.pipe

\* index of the first printed line that holds a URL, 0 when none does
FirstUrlLine ==
    LET hits == {i \in 1 .. Len(Printed) :
                    \E j \in 1 .. Len(Printed[i]) :
                        UrlIn(Printed[i][j]) # NoStr}
    IN IF hits = {} THEN 0 ELSE CHOOSE i \in hits : \A k \in hits : i <= k

\* the first URL of a line, word by word
FirstUrl(line) ==
    LET hits == {j \in 1 .. Len(line) : UrlIn(line[j]) # NoStr}
    IN UrlIn(line[CHOOSE j \in hits : \A k \in hits : j <= k])

\* C23: when start_public_localtunnel fails with ExternalUrlTimeout, the
\* helper it spawned has been killed: it is not alive once the failure is
\* reported.
TimeoutKillsHelper ==
    (scan.pc = "failed" /\ scan.err = "ExternalUrlTimeout") => ~helper.alive

\* C24: when start_public_localtunnel returns, it returns the pid of the
\* child it spawned and the first URL of the child's output, in output
\* order; the log holds the lines up to and including the one with that
\* URL, and no later line has been read.
ReturnsFirstUrl ==
    scan.pc = "returned" =>
        /\ scan.pid = helper.pid
        /\ FirstUrlLine # 0
        /\ scan.url = FirstUrl(Printed[FirstUrlLine])
        /\ lt_file.lines = SubSeq(Printed, 1, FirstUrlLine)
        /\ scan.read = SubSeq(Printed, 1, FirstUrlLine)

UrlAfterOtherLinesSeen ==
    /\ scan.pc = "returned"
    /\ Len(scan.read) = 2
    /\ UrlOf(scan.read[1]) = NoStr
    /\ scan.url = "http://y.lt,"
    /\ helper.pipe # <<>>
    /\ UrlOf(Head(helper.pipe)) # NoStr
    /\ Len(lt_file.lines) = 2

\* C25: two manager instances that each load the registry file, change
\* their copy and rewrite the file in full lose updates.  A successful
\* create leaves in the file exactly the registry of the instance that
\* made it, so a record the other instance had persisted meanwhile is
\* gone; in some interleaving both instances have created a tunnel and
\* the file holds only one of the two records.
LastWriterWins ==
    [][/\ (last'.op = "create" /\ last'.err = NoStr) =>
             LoadTunnels(file') = tunnels'
       /\ (last'.op = "peer_create" /\ last'.err = NoStr) =>
             LoadTunnels(file') = peer']_vars

LostUpdateSeen ==
    /\ last.op = "peer_create" /\ last.err = NoStr /\ last.name = "web"
    /\ DOMAIN tunnels = {"api"}
    /\ tunnels["api"].pid \in DOMAIN procs
    /\ DOMAIN peer = {"web"}
    /\ peer["web"].pid \in DOMAIN procs
    /\ DOMAIN LoadTunnels(file) = {"web"}

\* C26: create with an explicit public_port that is bound on loopback or is
\* the public_port of another record is rejected with no side effects: no
\* proxy is spawned and the registry and the file are unchanged.  Hence a
\* create that was given a port and succeeds was given one that was
\* neither bound nor reserved.
ExplicitPortUnavailableRejected ==
    [][(/\ last'.op = "create"
        /\ CreateCheck(Here, last'.name, last'.local_port) = NoStr
        /\ ~last'.auto
        /\ last'.err = NoStr) =>
          LET port == tunnels'[last'.name].public_port
          IN /\ IsPortAvailable(procs, port)
             /\ port \notin ReservedPorts(tunnels)]_vars

\* C27: where children exit on their own and the OS gives their pids to
\* unrelated processes, stop, stop_public and restart signal only the
\* proxy and the helper the manager spawned for the name: a process of
\* another program is never terminated by them.
OnlyOwnChildrenSignalled ==
    [][last'.op \in {"stop", "stop_public", "restart"} =>
          \A p \in DOMAIN procs :
              procs[p].kind = "other" =>
                  p \in DOMAIN procs' /\ procs'[p] = procs[p]]_vars

\* C28: after any operation of the manager returns, with success or with
\* failure, every proxy or helper the manager spawned that is still alive
\* is the pid or the public_pid of some record of the registry.
NoOrphanedChild ==
    last.op # "none" =>
        \A p \in DOMAIN procs :
            procs[p].kind \in {"proxy", "helper"} =>
                p \in RecordedPids(tunnels)

\* the proxies that run
Proxies(ps) == {<<p, ps[p]>> : p \in {q \in DOMAIN ps : ps[q].kind = "proxy"}}

\* a record without its three exposure fields
Unexposed(t) ==
    [t EXCEPT !.public_provider = NoStr, !.public_pid = None,
              !.public_url_external = NoStr]

TerminateBeforeKill ==
    \A c \in Children :
        /\ reap.calls[c] \in {<<>>, <<"terminate">>, <<"terminate", "kill">>}
        /\ reap.calls[c] = <<"terminate", "kill">> => reap.timedout[c]
        /\ reap.inwait[c] => reap.calls[c] = <<"terminate">>

GracefulAndForcedSeen ==
    /\ reap.op = "stop" /\ reap.pc = "done"
    /\ reap.calls["helper"] = <<"terminate">>
    /\ reap.inwait["helper"]
    /\ reap.calls["proxy"] = <<"terminate", "kill">>
    /\ reap.timedout["proxy"]

\* C31: once the handler of an accepted connection has returned, on any of
\* its paths (relay ended, relay failed, connect to the target failed), the
\* log holds the peer's "conn accepted" line and, after it, a "conn closed"
\* line for the same peer.
ClosedLineOnEveryPath ==
    \A c \in ConnIds :
        conns[c].phase = "closed" =>
            /\ conns[c].log[1] = <<"conn accepted">>
            /\ \E i \in 2 .. Len(conns[c].log) :
                   conns[c].log[i] = <<"conn closed">>

\* a _pipe task of connection c is still relaying
Relaying(c) == {conns[c].t1, conns[c].t2} \cap {"running", "cancelling"} # {}

\* C32: when one relay direction of a connection has ended, by end of
\* stream or by an error, the other is cancelled and eventually the client's
\* and the target's connection are both closed and no task of the
\* connection relays any more.
RelayEndClosesBoth ==
    \A c \in ConnIds :
        (conns[c].phase = "relay" /\ "done" \in {conns[c].t1, conns[c].t2})
            ~> (conns[c].cclosed /\ conns[c].uclosed /\ ~Relaying(c))

\* the client shut down its sending side right after its request: the
\* request went upstream, the other direction was cancelled, both ends are
\* closed and the proxy is still serving
HalfClosedAfterRequestSeen ==
    LET k == conns["c1"]
    IN /\ server = "ready"
       /\ k.sent \in ServeStreams /\ Len(k.sent) > 1
       /\ k.tgot = k.sent
       /\ k.t1 = "done" /\ k.t2 = "cancelled"
       /\ k.cclosed /\ k.uclosed
       /\ k.cgot = <<>>

\* C33: after a termination signal has reached the running proxy, the
\* proxy stops accepting connections and its process exits, whether or not
\* connections are in flight.
SignalLeadsToExit == (server = "stopping") ~> (server = "exited")

\* C34: when create has stored a record, the proxy it spawned for the
\* record is running on the record's public_port, also when another
\* program bound that port after the manager's probe found it free (then
\* create has failed with ProxyStartFailed and stored nothing).
StoredProxyServes ==
    making.pc = "stored" =>
        LET t == tunnels[making.name]
        IN /\ t.pid \in DOMAIN procs
           /\ procs[t.pid].port = t.public_port

\* C35: a call of start_public_localtunnel that has spawned its helper
\* completes: it returns a pid and a URL or it raises, whatever the helper
\* does, also when the helper stays alive and never prints a line.
LaunchCompletes ==
    (scan.pc \in {"poll", "read"}) ~> (scan.pc \in {"returned", "failed"})

\* the comparison of digests did not fail: the manifest listed none, or
\* the one it listed is that of the archive in the install directory
ChecksumStepPassed(h, version, expected) ==
    expected = NoStr \/ Sha256(h.archive[version]) = expected

\* C36: install_portable_node_lts sets and saves bundled_node only as its
\* last step: when it does, the checksum step has passed, the tree is
\* there (extracted now or earlier) and npx was found in it; when npx is
\* absent it fails and the config, in memory and on disk, is as before, and
\* so it is after any other failure.
ConfigSetLast ==
    [][ran'.provisioned =>
          /\ ran'.err = NoStr =>
                /\ ChecksumStepPassed(sys', ran'.version, ran'.expected)
                /\ sys'.tree[ran'.version] # NoStr
                /\ sys.tree[ran'.version] # NoStr =>
                      sys'.tree[ran'.version] = sys.tree[ran'.version]
                /\ Exists(sys', BundledNpx(ran'.version))
                /\ config' = BundledNpx(ran'.version)
                /\ config_file' = config'
                /\ ran'.path = config'
          /\ (ran'.version # NoStr
                /\ ChecksumStepPassed(sys', ran'.version, ran'.expected)
                /\ ~Exists(sys', BundledNpx(ran'.version))) =>
                ran'.err = "NpxMissing"
          /\ ran'.err # NoStr => UNCHANGED <<config, config_file>>]_vars

\* an installation found the tree in place without npx and failed, with a
\* runner of the other version still recorded
NpxMissingSeen ==
    /\ ran.op = "ensure" /\ ran.provisioned
    /\ ran.err = "NpxMissing"
    /\ sys.tree[ran.version] = Hollow
    /\ config # NoStr /\ config # BundledNpx(ran.version)
    /\ config_file = config

\* C37: install_portable_node_lts extracts an archive, and records the
\* runner, only when the manifest lists a digest for the archive and the
\* archive's SHA-256 equals it.
OnlyVerifiedArchivesInstalled ==
    [][ran'.provisioned =>
          /\ (ran'.version # NoStr
                /\ sys'.tree[ran'.version] # sys.tree[ran'.version]) =>
                /\ ran'.expected # NoStr
                /\ Sha256(sys'.archive[ran'.version]) = ran'.expected
          /\ ran'.err = NoStr =>
                /\ ran'.expected # NoStr
                /\ Sha256(sys'.archive[ran'.version]) = ran'.expected]_vars

\* C38: an instance that is started while another instance is rewriting
\* tunnels.json loads the registry of the last completed save, not an
\* empty one.
TornFileNotLoadedAsEmpty ==
    [][(making.pc = "saving" /\ peer' # peer /\ file' = file) =>
          peer' = LoadJson(making.before)]_vars

\* C39: a successful restart(name) launches the exposure helper if and only
\* if the tunnel's exposure was running just before the restart; after
\* stop_public(name) has detached the exposure, restart(name) launches no
\* helper.
RestartExposesIffExposed ==
    [][(last'.op = "restart" /\ last'.err = NoStr) =>
          LET name == last'.name
          IN (/\ tunnels'[name].public_pid # None
              /\ tunnels'[name].public_pid \in DOMAIN procs'
              /\ procs'[tunnels'[name].public_pid] = HelperProcess)
                 <=> ExposureAlive(tunnels, procs, name)]_vars

\* C40: after list(), whatever lists and process deaths came before, a
\* record carries process_info only if its status is 'running'.
ProcessInfoOnlyWhenRunning ==
    last.op = "list" =>
        \A n \in DOMAIN tunnels :
            tunnels[n].process_info # None => tunnels[n].status = "running"

============================================================================
